---- MODULE Spec2Model ----
(***************************************************************************)
(* Model of the deterministic judge of tempo-mcp's eval harness:           *)
(*   evals/scoring.py  - parse_iso, overlaps, score_scenario,              *)
(*                       ScoreBreakdown.composite_score                    *)
(*   evals/harness.py  - parse_blocks_from_text,                           *)
(*                       expand_recurring_for_scoring,                     *)
(*                       expand_gcal_json_for_scoring,                     *)
(*                       add_realistic_noise,                              *)
(*                       extract_blocks_from_conversation,                 *)
(*                       the conversation loop of run_mcp_eval             *)
(*                                                                         *)
(* Time is counted in minutes.  A datetime is a wall-clock reading plus    *)
(* either a UTC offset (an "aware" datetime) or nothing (a "naive" one),   *)
(* as Python's datetime.fromisoformat produces them.  Floats in [0,1] are  *)
(* exact fractions n/d in lowest terms.                                    *)
(***************************************************************************)
EXTENDS Integers, Sequences, FiniteSets, TLC

VARIABLES
    pc,              \* position of the running call
    text,            \* parse_blocks_from_text: the input text (tokens)
    blocks,          \* list[ScheduledBlock] handed to score_scenario
    existing,        \* list[ExistingEvent] handed to score_scenario
    constraints,     \* the constraint spec (a dict: absent key = not in DOMAIN)
    result,          \* the ScoreBreakdown under construction
    violations,      \* score_scenario local
    total_checks,    \* score_scenario local
    rule_idx,        \* score_scenario: index of the next custom rule
    composite,       \* value read from ScoreBreakdown.composite_score (tenths)
    calendar,        \* normalizer input: iCal lines or gcal entries
    window,          \* normalizer input: [rs, re] ISO strings
    events,          \* normalizer output: list[ExistingEvent]
    noise_log,       \* the calls of add_realistic_noise made so far
    conversation,    \* extract_blocks_from_conversation: the messages
    overlap,         \* the value overlaps returned, in both argument orders
    eval_result,     \* run_mcp_eval: the EvalResult under construction
    round_num,       \* run_mcp_eval: the round of the conversation loop
    response,        \* run_mcp_eval: the response of the current round
    tool_results,    \* run_mcp_eval: the tool results of the current round
    block_idx,       \* run_mcp_eval: position in response.content
    call_log         \* the calls made so far to the model API and to the tool server

vars == <<pc, text, blocks, existing, constraints, result, violations,
          total_checks, rule_idx, composite, calendar, window, events,
          noise_log, conversation, overlap,
          eval_result, round_num, response, tool_results, block_idx, call_log>>

\* the state of run_mcp_eval's conversation loop
LoopVars == <<eval_result, round_num, response, tool_results, block_idx, call_log>>

-----------------------------------------------------------------------------
(* Bounds of the model *)

MaxBlocks == 2
MaxEvents == 2
MaxDen == 4
MaxEntries == 2
MaxCalEvents == 2

-----------------------------------------------------------------------------
(* Sequences *)

Range(s) == {s[i] : i \in 1..Len(s)}

RECURSIVE SeqsUpTo(_, _)
SeqsUpTo(S, n) ==
    IF n = 0 THEN {<<>>}
    ELSE LET shorter == SeqsUpTo(S, n - 1)
         IN  shorter \cup {Append(s, x) : s \in {t \in shorter : Len(t) = n - 1}, x \in S}

RECURSIVE Flatten(_)
Flatten(ss) == IF ss = <<>> THEN <<>> ELSE Head(ss) \o Flatten(Tail(ss))

-----------------------------------------------------------------------------
(* datetime values and ISO strings *)

Day == 1440

\* An ISO-8601 string: form says how it is written, w is the wall-clock
\* reading it spells, off the offset it spells (forms "Z" and "naive": 0).
\*   "Z"       2025-01-20T09:00:00Z
\*   "offset"  2025-01-20T04:00:00-05:00
\*   "naive"   2025-01-20T09:00:00      (no offset)
\*   "date"    2025-01-20               (date only)
\*   "bad"     not an ISO string
\*   "empty"   "" / null / missing (falsy)
Iso(form, w, off) == [form |-> form, w |-> w, off |-> off]
IsoZ(w) == Iso("Z", w, 0)
IsoOff(w, off) == Iso("offset", w, off)
IsoNaive(w) == Iso("naive", w, 0)
IsoDate(w) == Iso("date", (w \div Day) * Day, 0)
IsoBad == Iso("bad", 0, 0)
IsoEmpty == Iso("empty", 0, 0)

Truthy(s) == s.form # "empty"

DT(w, off, aware) == [w |-> w, off |-> off, aware |-> aware]
NoDT == DT(0, 0, FALSE)

\* parse_iso raises ValueError exactly on the strings fromisoformat rejects
ParseIsoFails(s) == s.form \in {"bad", "empty"}

\* parse_iso: a trailing Z is rewritten to +00:00, then fromisoformat
parse_iso(s) ==
    CASE s.form = "Z" -> DT(s.w, 0, TRUE)
      [] s.form = "offset" -> DT(s.w, s.off, TRUE)
      [] s.form = "naive" -> DT(s.w, 0, FALSE)
      [] s.form = "date" -> DT(s.w, 0, FALSE)
      [] OTHER -> NoDT

\* the absolute instant (UTC minutes) an aware datetime denotes; for a naive
\* one Python compares the wall-clock reading
Abs(d) == d.w - d.off

Hour(d) == (d.w % Day) \div 60
Minute(d) == d.w % 60
DateOf(d) == d.w \div Day

\* Three-valued outcome of a Python expression: "T", "F" or "E" (raised)
Tri(b) == IF b THEN "T" ELSE "F"

\* a < b, a <= b, a > b on datetimes: TypeError when exactly one is naive
LtR(a, b) == IF a.aware # b.aware THEN "E" ELSE Tri(Abs(a) < Abs(b))
LeR(a, b) == IF a.aware # b.aware THEN "E" ELSE Tri(Abs(a) <= Abs(b))
GtR(a, b) == LtR(b, a)

\* a == b on datetimes never raises: a naive and an aware one are unequal
DtEq(a, b) == a.aware = b.aware /\ Abs(a) = Abs(b)

\* short-circuit `and` / `or`
AndR(x, y) == IF x = "E" THEN "E" ELSE IF x = "F" THEN "F" ELSE y
OrR(x, y) == IF x = "E" THEN "E" ELSE IF x = "T" THEN "T" ELSE y

\* a - b on datetimes (minutes): TypeError when exactly one is naive
SubFails(a, b) == a.aware # b.aware
Sub(a, b) == Abs(a) - Abs(b)

-----------------------------------------------------------------------------
(* Fractions *)

RECURSIVE GCD(_, _)
GCD(a, b) == IF b = 0 THEN a ELSE GCD(b, a % b)

Frac(n, d) == LET g == GCD(n, d) IN [n |-> n \div g, d |-> d \div g]
Zero == [n |-> 0, d |-> 1]
One == [n |-> 1, d |-> 1]

\* max(0.0, 1.0 - k / n) for n > 0
OneMinus(k, n) == IF k >= n THEN Zero ELSE Frac(n - k, n)
\* AtMostOne without the cap at 1.0
AtMostOne_uncapped(k, n) == Frac(k, n)

\* min(1.0, k / n) for n > 0
AtMostOne(k, n) == IF k >= n THEN One ELSE Frac(k, n)

-----------------------------------------------------------------------------
(* scoring.py: data *)

ScheduledBlock(title, start, end) == [title |-> title, start |-> start, end |-> end]
ExistingEvent(title, start, end) == [title |-> title, start |-> start, end |-> end]

\* ScheduledBlock.duration_minutes: (end - start).total_seconds() / 60
DurationFails(b) == SubFails(b.end, b.start)
duration_minutes(b) == Sub(b.end, b.start)

\* ScheduledBlock.date_key: start.strftime("%Y-%m-%d"), the wall-clock date
date_key(b) == DateOf(b.start)

\* dict.get(key, default)
Get(d, key, default) == IF key \in DOMAIN d THEN d[key] ELSE default
Has(d, key) == key \in DOMAIN d

\* ScoreBreakdown() as constructed: all dimensions 0.0, empty detail
NewScoreBreakdown ==
    [correctness |-> Zero, completeness |-> Zero, constraint_adherence |-> Zero,
     total_blocks |-> 0, required_blocks |-> 0, conflict_count |-> 0,
     constraint_violations |-> <<>>]

\* one entry of constraint_violations: the rule tag and what it is about
Msg(tag, a, b) == [tag |-> tag, a |-> a, b |-> b]

-----------------------------------------------------------------------------
(* scoring.py: the outcome of a run of loop iterations *)

\* err: an exception escaped; checks / viol: increments of total_checks and
\* violations (or of conflict_count); msgs: appended constraint_violations
Out(err, checks, viol, msgs) == [err |-> err, checks |-> checks, viol |-> viol, msgs |-> msgs]
Nothing == Out(FALSE, 0, 0, <<>>)
Raised == Out(TRUE, 0, 0, <<>>)
\* Checked with the check counted only when the evaluation passes
Checked_uncounted(fails, m) ==
    CASE fails = "E" -> Raised
      [] fails = "T" -> Out(FALSE, 0, 1, <<m>>)
      [] OTHER -> Out(FALSE, 1, 0, <<>>)

\* an evaluation counted as a check, failing (with message m) iff fails = "T"
Checked(fails, m) ==
    CASE fails = "E" -> Raised
      [] fails = "T" -> Out(FALSE, 1, 1, <<m>>)
      [] OTHER -> Out(FALSE, 1, 0, <<>>)

\* sequential composition: what follows an exception does not run
Then(r1, r2) ==
    IF r1.err THEN Raised
    ELSE IF r2.err THEN Raised
    ELSE Out(FALSE, r1.checks + r2.checks, r1.viol + r2.viol, r1.msgs \o r2.msgs)

RECURSIVE Chain(_)
Chain(rs) == IF rs = <<>> THEN Nothing ELSE Then(Head(rs), Chain(Tail(rs)))

\* for i in 1..n: body(i)
ForEach(n, body(_)) == Chain([i \in 1..n |-> body(i)])

-----------------------------------------------------------------------------
(* scoring.py: overlaps and the correctness loop *)

\* overlaps on closed intervals: a_start <= b_end and b_start <= a_end
overlaps_closed(a_start, a_end, b_start, b_end) ==
    AndR(LeR(a_start, b_end), LeR(b_start, a_end))

\* a_start < b_end and b_start < a_end
overlaps(a_start, a_end, b_start, b_end) ==
    AndR(LtR(a_start, b_end), LtR(b_start, a_end))

\* for block in blocks: for event in existing: if overlaps(...): count
ConflictPair(bs, es, i, j) ==
    LET o == overlaps(bs[i].start, bs[i].end, es[j].start, es[j].end)
    IN  CASE o = "E" -> Raised
          [] o = "T" -> Out(FALSE, 0, 1, <<Msg("CONFLICT", i, j)>>)
          [] OTHER -> Nothing

\* ConflictScan counting a block once however many events it overlaps
ConflictScan_dedup(bs, es) ==
    ForEach(Len(bs), LAMBDA i :
        LET row == ForEach(Len(es), LAMBDA j : ConflictPair(bs, es, i, j))
        IN  IF row.err \/ row.viol = 0 THEN row
            ELSE Out(FALSE, 0, 1, <<Head(row.msgs)>>))

ConflictScan(bs, es) ==
    ForEach(Len(bs), LAMBDA i : ForEach(Len(es), LAMBDA j : ConflictPair(bs, es, i, j)))

-----------------------------------------------------------------------------
(* scoring.py: the constraint-adherence rules of score_scenario *)

\* rule[key] raises KeyError when the key is missing
KeyErr(rule, key) == ~Has(rule, key)

\* WorkingHoursBlock with the end hour never rounded up
WorkingHoursBlock_end_truncated(wh, b, i) ==
    LET bh_start == Hour(b.start)
        bh_end == Hour(b.end)
    IN  IF KeyErr(wh, "start_hour") THEN Raised
        ELSE IF bh_start < wh["start_hour"]
             THEN (IF KeyErr(wh, "end_hour") THEN Raised
                   ELSE Checked("T", Msg("WORKING_HOURS", i, 0)))
        ELSE IF KeyErr(wh, "end_hour") THEN Raised
        ELSE Checked(Tri(bh_end > wh["end_hour"]), Msg("WORKING_HOURS", i, 0))

\* Working hours, one block: total_checks += 1, then
\*   bh_start < wh["start_hour"] or bh_end > wh["end_hour"]
\* and, when it fails, a message that reads both keys
WorkingHoursBlock(wh, b, i) ==
    LET bh_start == Hour(b.start)
        bh_end == Hour(b.end) + (IF Minute(b.end) > 0 THEN 1 ELSE 0)
    IN  IF KeyErr(wh, "start_hour") THEN Raised
        ELSE IF bh_start < wh["start_hour"]
             THEN (IF KeyErr(wh, "end_hour") THEN Raised
                   ELSE Checked("T", Msg("WORKING_HOURS", i, 0)))
        ELSE IF KeyErr(wh, "end_hour") THEN Raised
        ELSE Checked(Tri(bh_end > wh["end_hour"]), Msg("WORKING_HOURS", i, 0))

\* wh = constraints.get("working_hours"); if wh: for block in blocks: ...
\* (an empty dict is falsy)
WorkingHours(c, bs) ==
    IF Has(c, "working_hours") /\ DOMAIN c["working_hours"] # {}
    THEN ForEach(Len(bs), LAMBDA i : WorkingHoursBlock(c["working_hours"], bs[i], i))
    ELSE Nothing

\* Duration, one block and one bound: duration < min_dur - 1 / duration > max_dur + 1
MinDurationBlock(min_dur, b, i) ==
    IF DurationFails(b) THEN Raised
    ELSE Checked(Tri(duration_minutes(b) < min_dur - 1), Msg("DURATION", i, min_dur))

MaxDurationBlock(max_dur, b, i) ==
    IF DurationFails(b) THEN Raised
    ELSE Checked(Tri(duration_minutes(b) > max_dur + 1), Msg("DURATION", i, max_dur))

Duration(c, bs) ==
    ForEach(Len(bs), LAMBDA i :
        Then(IF Has(c, "min_duration_minutes")
             THEN MinDurationBlock(c["min_duration_minutes"], bs[i], i) ELSE Nothing,
             IF Has(c, "max_duration_minutes")
             THEN MaxDurationBlock(c["max_duration_minutes"], bs[i], i) ELSE Nothing))

\* Date range: only when both bounds are given (and non-empty);
\*   block.start < rs or block.end > re
DateRangeBlock(rs, re, b, i) ==
    Checked(OrR(LtR(b.start, rs), GtR(b.end, re)), Msg("DATE_RANGE", i, 0))

DateRange(c, bs) ==
    LET range_start == Get(c, "date_range_start", IsoEmpty)
        range_end == Get(c, "date_range_end", IsoEmpty)
    IN  IF Truthy(range_start) /\ Truthy(range_end)
        THEN IF ParseIsoFails(range_start) \/ ParseIsoFails(range_end) THEN Raised
             ELSE ForEach(Len(bs), LAMBDA i :
                      DateRangeBlock(parse_iso(range_start), parse_iso(range_end), bs[i], i))
        ELSE Nothing

\* custom time_window, one block:
\*   block.start.hour < rule["start_hour"] or block.end.hour > rule["end_hour"]
TimeWindowBlock(rule, b, i) ==
    IF KeyErr(rule, "start_hour") THEN Raised
    ELSE IF Hour(b.start) < rule["start_hour"]
         THEN (IF KeyErr(rule, "end_hour") THEN Raised
               ELSE Checked("T", Msg("TIME_WINDOW", i, 0)))
    ELSE IF KeyErr(rule, "end_hour") THEN Raised
    ELSE Checked(Tri(Hour(b.end) > rule["end_hour"]), Msg("TIME_WINDOW", i, 0))

\* custom min_buffer_minutes, one (block, interval) pair of the inner loop
BufferPair(buffer, b, ev, i, j) ==
    IF DtEq(ev.start, b.start) /\ DtEq(ev.end, b.end) THEN Nothing   \* skip self
    ELSE \* total_checks += 1 comes before the gap is looked at
         LET before == LeR(b.end, ev.start)
             after == LeR(ev.end, b.start)
         IN  IF before = "E" THEN Raised
             ELSE IF before = "T"
                  THEN (IF SubFails(ev.start, b.end) THEN Raised
                        ELSE Checked(Tri(Sub(ev.start, b.end) < buffer), Msg("BUFFER", i, j)))
             ELSE IF after = "E" THEN Raised
             ELSE IF after = "T"
                  THEN (IF SubFails(b.start, ev.end) THEN Raised
                        ELSE Checked(Tri(Sub(b.start, ev.end) < buffer), Msg("BUFFER", i, j)))
             ELSE Out(FALSE, 1, 0, <<>>)   \* overlapping: continue

MinBuffer(rule, bs, es) ==
    IF KeyErr(rule, "value") THEN Raised
    ELSE LET all_events == es \o bs
         IN  ForEach(Len(bs), LAMBDA i :
                 ForEach(Len(all_events), LAMBDA j :
                     BufferPair(rule["value"], bs[i], all_events[j], i, j)))

\* Counter(b.date_key for b in blocks): the distinct days in order of first
\* appearance, and the number of blocks on a day
RECURSIVE DistinctDays(_)
DistinctDays(bs) ==
    IF bs = <<>> THEN <<>>
    ELSE LET front == DistinctDays(SubSeq(bs, 1, Len(bs) - 1))
             d == date_key(bs[Len(bs)])
         IN  IF d \in Range(front) THEN front ELSE Append(front, d)

DayCount(bs, d) == Cardinality({i \in 1..Len(bs) : date_key(bs[i]) = d})

\* MaxPerDay with one check per block instead of one per distinct day
MaxPerDay_per_block(rule, bs) ==
    IF KeyErr(rule, "value") THEN Raised
    ELSE ForEach(Len(bs), LAMBDA i :
             Checked(Tri(DayCount(bs, date_key(bs[i])) > rule["value"]),
                     Msg("MAX_PER_DAY", date_key(bs[i]), DayCount(bs, date_key(bs[i])))))

MaxPerDay(rule, bs) ==
    IF KeyErr(rule, "value") THEN Raised
    ELSE LET days == DistinctDays(bs)
         IN  ForEach(Len(days), LAMBDA k :
                 Checked(Tri(DayCount(bs, days[k]) > rule["value"]),
                         Msg("MAX_PER_DAY", days[k], DayCount(bs, days[k]))))

\* SpreadAcrossDays making no check when there is no block
SpreadAcrossDays_skip_empty(rule, bs) ==
    LET unique_days == Cardinality({date_key(bs[i]) : i \in 1..Len(bs)})
        min_days == Get(rule, "min_days", 1)
    IN  IF bs = <<>> THEN Nothing
        ELSE Checked(Tri(unique_days < min_days), Msg("SPREAD", unique_days, min_days))

SpreadAcrossDays(rule, bs) ==
    LET unique_days == Cardinality({date_key(bs[i]) : i \in 1..Len(bs)})
        min_days == Get(rule, "min_days", 1)
    IN  Checked(Tri(unique_days < min_days), Msg("SPREAD", unique_days, min_days))

BlockedDates(rule, bs) ==
    LET blocked == Get(rule, "dates", {})
    IN  ForEach(Len(bs), LAMBDA i :
            Checked(Tri(DateOf(bs[i].start) \in blocked), Msg("BLOCKED_DATE", i, 0)))

\* one iteration of `for rule in custom_rules`
CustomRule(rule, bs, es) ==
    LET rule_type == Get(rule, "type", "")
    IN  CASE rule_type = "time_window" ->
                ForEach(Len(bs), LAMBDA i : TimeWindowBlock(rule, bs[i], i))
          [] rule_type = "min_buffer_minutes" -> MinBuffer(rule, bs, es)
          [] rule_type = "max_per_day" -> MaxPerDay(rule, bs)
          [] rule_type = "spread_across_days" -> SpreadAcrossDays(rule, bs)
          [] rule_type = "blocked_dates" -> BlockedDates(rule, bs)
          [] OTHER -> Nothing

-----------------------------------------------------------------------------
(* scoring.py: score_scenario, one action per section of the function *)

ScoreVars == <<result, violations, total_checks, rule_idx>>
Inputs == <<text, blocks, existing, constraints, calendar, window,
            noise_log, conversation, overlap, LoopVars>>

custom_rules == Get(constraints, "custom_rules", <<>>)

\* the section after the custom-rule loop position k
AfterRule(k) == IF k > Len(custom_rules) THEN "adherence" ELSE "custom_rules"

\* lines 85-93
Completeness ==
    /\ pc = "completeness"
    /\ LET required == Get(constraints, "required_block_count", 0)
       IN  result' = [result EXCEPT
                !.required_blocks = required,
                !.total_blocks = Len(blocks),
                !.completeness = IF required > 0 THEN AtMostOne(Len(blocks), required)
                                 ELSE One]
    /\ pc' = "correctness"
    /\ UNCHANGED <<Inputs, violations, total_checks, rule_idx, composite, events>>

\* lines 95-109
Correctness ==
    /\ pc = "correctness"
    /\ LET scan == ConflictScan(blocks, existing)
       IN  IF scan.err
           THEN pc' = "raised" /\ UNCHANGED result
           ELSE /\ result' = [result EXCEPT
                     !.conflict_count = scan.viol,
                     !.constraint_violations = @ \o scan.msgs,
                     !.correctness = IF Len(blocks) > 0
                                     THEN OneMinus(scan.viol, Len(blocks))
                                     ELSE Zero]
                /\ pc' = "working_hours"
    /\ UNCHANGED <<Inputs, violations, total_checks, rule_idx, composite, events>>

\* the effect of one rule section on the counters and the message list
Count(out, next) ==
    IF out.err
    THEN pc' = "raised" /\ UNCHANGED <<result, violations, total_checks>>
    ELSE /\ total_checks' = total_checks + out.checks
         /\ violations' = violations + out.viol
         /\ result' = [result EXCEPT !.constraint_violations = @ \o out.msgs]
         /\ pc' = next

\* lines 111-126
WorkingHoursCheck ==
    /\ pc = "working_hours"
    /\ Count(WorkingHours(constraints, blocks), "duration")
    /\ UNCHANGED <<Inputs, rule_idx, composite, events>>

\* lines 128-145
DurationCheck ==
    /\ pc = "duration"
    /\ Count(Duration(constraints, blocks), "date_range")
    /\ UNCHANGED <<Inputs, rule_idx, composite, events>>

\* lines 147-159
DateRangeCheck ==
    /\ pc = "date_range"
    /\ Count(DateRange(constraints, blocks), AfterRule(1))
    /\ rule_idx' = 1
    /\ UNCHANGED <<Inputs, composite, events>>

\* lines 161-228, one rule of the list
CustomRuleCheck ==
    /\ pc = "custom_rules"
    /\ Count(CustomRule(custom_rules[rule_idx], blocks, existing), AfterRule(rule_idx + 1))
    /\ rule_idx' = rule_idx + 1
    /\ UNCHANGED <<Inputs, composite, events>>

\* lines 230-235
Adherence ==
    /\ pc = "adherence"
    /\ result' = [result EXCEPT
            !.constraint_adherence = IF total_checks > 0
                                     THEN OneMinus(violations, total_checks)
                                     ELSE One]
    /\ pc' = "done"
    /\ UNCHANGED <<Inputs, violations, total_checks, rule_idx, composite, events>>

-----------------------------------------------------------------------------
(* scoring.py: ScoreBreakdown.composite_score *)

\* CompositeNum with the bonus granted on correctness alone
CompositeNum_bonus_on_correctness(r) ==
    LET c == r.correctness
        p == r.completeness
        a == r.constraint_adherence
        bonus == IF c = One THEN 150 ELSE 0
    IN  400 * c.n * p.d * a.d + 250 * p.n * c.d * a.d + (200 + bonus) * a.n * c.d * p.d

\* 1000 * base as the fraction num/den, base as lines 49-56 compute it
CompositeNum(r) ==
    LET c == r.correctness
        p == r.completeness
        a == r.constraint_adherence
        bonus == IF c = One /\ p = One THEN 150 ELSE 0
    IN  400 * c.n * p.d * a.d + 250 * p.n * c.d * a.d + (200 + bonus) * a.n * c.d * p.d

CompositeDen(r) == r.correctness.d * r.completeness.d * r.constraint_adherence.d

\* round(base * 100, 1), in tenths.  Where the exact value lies halfway
\* between two tenths the float that stands for it decides, so either
\* neighbour can come out.
RoundTenths(num, den) ==
    LET lo == num \div den
        rem == num % den
    IN  IF 2 * rem < den THEN {lo}
        ELSE IF 2 * rem > den THEN {lo + 1}
        ELSE {lo, lo + 1}

CompositeScore ==
    /\ pc = "done"
    /\ composite' \in RoundTenths(CompositeNum(result), CompositeDen(result))
    /\ pc' = "scored"
    /\ UNCHANGED <<Inputs, ScoreVars, events>>

-----------------------------------------------------------------------------
(* Inputs of the scoring engine *)

\* wall-clock minute of day `day` (0 = the Monday the window starts) at h:m
At(day, h, m) == day * Day + h * 60 + m

UTC(day, h, m) == DT(At(day, h, m), 0, TRUE)
\* the same instant as UTC(day, h, m), written with offset -05:00
EST(day, h, m) == DT(At(day, h, m) - 300, 0 - 300, TRUE)
Naive(day, h, m) == DT(At(day, h, m), 0, FALSE)

BlockSet ==
    { ScheduledBlock("Focus", UTC(1, 9, 0), UTC(1, 10, 30)),
      ScheduledBlock("Focus", UTC(1, 14, 0), UTC(1, 15, 0)),
      ScheduledBlock("Late", UTC(1, 18, 0), UTC(1, 19, 0)),
      ScheduledBlock("Focus", UTC(2, 10, 0), UTC(2, 11, 0)),
      ScheduledBlock("Backwards", UTC(1, 10, 0), UTC(1, 9, 0)),
      ScheduledBlock("Shifted", EST(1, 3, 0), EST(1, 4, 0)),
      ScheduledBlock("NoOffset", Naive(1, 14, 0), Naive(1, 15, 0)) }

EventSet ==
    { ExistingEvent("Meeting", UTC(1, 10, 0), UTC(1, 11, 0)),
      ExistingEvent("Workshop", UTC(1, 9, 0), UTC(1, 12, 0)),
      ExistingEvent("Standup", UTC(1, 15, 0), UTC(1, 15, 30)) }

Dict1(k, v) == [x \in {k} |-> v]
EmptyDict == [x \in {} |-> 0]

RuleSet ==
    { [type |-> "time_window", start_hour |-> 9, end_hour |-> 17],
      [type |-> "time_window", start_hour |-> 9],
      [type |-> "time_window", end_hour |-> 17],
      [type |-> "min_buffer_minutes", value |-> 15],
      [type |-> "min_buffer_minutes"],
      [type |-> "max_per_day", value |-> 1],
      [type |-> "max_per_day"],
      [type |-> "spread_across_days", min_days |-> 2],
      [type |-> "spread_across_days"],
      [type |-> "blocked_dates", dates |-> {1}],
      [type |-> "no_such_rule"] }

FeatureSet ==
    { EmptyDict,
      Dict1("working_hours", [start_hour |-> 9, end_hour |-> 17]),
      Dict1("working_hours", [start_hour |-> 9, end_hour |-> 10]),
      Dict1("working_hours", [start_hour |-> 9]),
      Dict1("working_hours", [end_hour |-> 17]),
      Dict1("working_hours", EmptyDict),
      Dict1("min_duration_minutes", 60),
      Dict1("max_duration_minutes", 60),
      [min_duration_minutes |-> 30, max_duration_minutes |-> 90],
      [date_range_start |-> IsoZ(At(1, 0, 0)), date_range_end |-> IsoZ(At(1, 23, 59))],
      Dict1("date_range_start", IsoZ(At(1, 12, 0))),
      [working_hours |-> [start_hour |-> 9, end_hour |-> 17],
       max_duration_minutes |-> 60,
       custom_rules |-> << [type |-> "max_per_day", value |-> 1],
                           [type |-> "min_buffer_minutes", value |-> 15] >>] }
    \cup { Dict1("custom_rules", <<r>>) : r \in RuleSet }

RequiredSet == {0, 1, 2, 3}

\* required_block_count alone (absent or given), and every feature with
\* required_block_count = 1 or absent
ConstraintSet ==
    FeatureSet
    \cup { Dict1("required_block_count", n) : n \in RequiredSet }
    \cup { Dict1("required_block_count", 1) @@ f : f \in FeatureSet }
    \cup { [required_block_count |-> 2,
            custom_rules |-> << [type |-> "max_per_day", value |-> 1] >>] }

-----------------------------------------------------------------------------
(* Specification of score_scenario on blocks supplied directly *)

\* run_mcp_eval is not running
NoLoop ==
    /\ eval_result = <<>>
    /\ round_num = 0
    /\ response = <<>>
    /\ tool_results = <<>>
    /\ block_idx = 0
    /\ call_log = <<>>

\* nothing else has been called
NoOtherCall ==
    /\ noise_log = <<>>
    /\ conversation = <<>>
    /\ overlap = <<>>
    /\ NoLoop

Idle == /\ text = <<>>
        /\ calendar = <<>>
        /\ window = <<>>
        /\ events = <<>>
        /\ composite = 0 - 1
        /\ NoOtherCall

ScoreStart ==
    /\ result = NewScoreBreakdown
    /\ violations = 0
    /\ total_checks = 0
    /\ rule_idx = 0

Init ==
    /\ pc = "completeness"
    /\ blocks \in SeqsUpTo(BlockSet, MaxBlocks)
    /\ existing \in SeqsUpTo(EventSet, MaxEvents)
    /\ constraints \in ConstraintSet
    /\ ScoreStart
    /\ Idle

Next ==
    \/ Completeness
    \/ Correctness
    \/ WorkingHoursCheck
    \/ DurationCheck
    \/ DateRangeCheck
    \/ CustomRuleCheck
    \/ Adherence

Spec == Init /\ [][Next]_vars

-----------------------------------------------------------------------------
(* Specification of composite_score on arbitrary breakdowns *)

Fractions == {Frac(n, d) : n \in 0..MaxDen, d \in 1..MaxDen} \cap
             {f \in [n : 0..MaxDen, d : 1..MaxDen] : f.n <= f.d}

InitComposite ==
    /\ pc = "done"
    /\ \E c \in Fractions, p \in Fractions, a \in Fractions :
          result = [NewScoreBreakdown EXCEPT
                      !.correctness = c, !.completeness = p, !.constraint_adherence = a]
    /\ blocks = <<>>
    /\ existing = <<>>
    /\ constraints = EmptyDict
    /\ violations = 0
    /\ total_checks = 0
    /\ rule_idx = 0
    /\ Idle

NextComposite == CompositeScore

SpecComposite == InitComposite /\ [][NextComposite]_vars

-----------------------------------------------------------------------------
(* harness.py: the text handed to parse_blocks_from_text *)

\* The text is a sequence of tokens.  t is the kind of token:
\*   "[" "]" "{" "}" ","   the JSON delimiters
\*   "nl"      a newline (the only whitespace of the model)
\*   "ticks"   three backticks
\*   "json"    the word json
\*   "prose"   any other run of characters that is not JSON
\*   "kv"      an object member "k": <scalar>, the scalar standing for the
\*             ISO string v (or title string s)
\*   "key"     the start "k": of an object member whose value follows
\*   "scalar"  a scalar JSON value outside an object (a number, a string)
\*   "huge"    an integer literal longer than int() converts (4300 digits)
Tok(t) == [t |-> t, k |-> "", v |-> IsoEmpty, s |-> ""]
KV(k, v) == [t |-> "kv", k |-> k, v |-> v, s |-> ""]
KVStr(k, str) == [t |-> "kv", k |-> k, v |-> IsoBad, s |-> str]
Key(k) == [t |-> "key", k |-> k, v |-> IsoEmpty, s |-> ""]

\* Positions of a sequence that satisfy a test, smallest and largest
MinOf(S) == CHOOSE x \in S : \A y \in S : x <= y
MaxOf(S) == CHOOSE x \in S : \A y \in S : x >= y

\* re.search(r"```(?:json)?\s*\n(.*?)\n```", text, re.DOTALL)
\* the header of a fence opened at p ends at a newline h reached from the
\* ticks (and the optional json) through whitespace only
HeaderNewlines(ts, p) ==
    LET q == IF p + 1 <= Len(ts) /\ ts[p + 1].t = "json" THEN p + 2 ELSE p + 1
    IN  {h \in q..Len(ts) : \A x \in q..h : ts[x].t = "nl"}

\* a fence whose header ended at h closes at a newline that ticks follow
FenceEnds(ts, h) == {e \in (h + 1)..(Len(ts) - 1) : ts[e].t = "nl" /\ ts[e + 1].t = "ticks"}

FenceAt(ts, p) == {h \in HeaderNewlines(ts, p) : FenceEnds(ts, h) # {}}

FenceStarts(ts) == {p \in 1..Len(ts) : ts[p].t = "ticks" /\ FenceAt(ts, p) # {}}

\* json_match.group(1): leftmost match; \s* is greedy (the last newline of
\* the header that still lets the rest match), (.*?) is lazy (the first
\* closing fence)
FenceContent(ts) ==
    LET p == MinOf(FenceStarts(ts))
        h == MaxOf(FenceAt(ts, p))
        e == MinOf(FenceEnds(ts, h))
    IN  SubSeq(ts, h + 1, e - 1)

\* lines 404-415: from the first start_char, the span up to where the
\* depth of start_char / end_char first returns to zero; {} when it never does
RECURSIVE DepthAt(_, _, _, _, _)
DepthAt(ts, open, close, idx, i) ==
    IF i < idx THEN 0
    ELSE DepthAt(ts, open, close, idx, i - 1)
         + (IF ts[i].t = open THEN 1 ELSE IF ts[i].t = close THEN 0 - 1 ELSE 0)

Opens(ts, open) == {i \in 1..Len(ts) : ts[i].t = open}

BalancedEnds(ts, open, close) ==
    IF Opens(ts, open) = {} THEN {}
    ELSE LET idx == MinOf(Opens(ts, open))
         IN  {i \in idx..Len(ts) : DepthAt(ts, open, close, idx, i) = 0}

BalancedSpan(ts, open, close) ==
    SubSeq(ts, MinOf(Opens(ts, open)), MinOf(BalancedEnds(ts, open, close)))

\* lines 398-420: the candidate payload; found = FALSE is `return []`
Candidate(ts) ==
    IF FenceStarts(ts) # {} THEN [found |-> TRUE, raw |-> FenceContent(ts)]
    ELSE IF BalancedEnds(ts, "[", "]") # {}
         THEN [found |-> TRUE, raw |-> BalancedSpan(ts, "[", "]")]
    ELSE IF BalancedEnds(ts, "{", "}") # {}
         THEN [found |-> TRUE, raw |-> BalancedSpan(ts, "{", "}")]
    ELSE [found |-> FALSE, raw |-> <<>>]


-----------------------------------------------------------------------------
(* harness.py: json.loads(raw) *)

\* A parsed JSON value: a list of values, a dict (its members in the order
\* written), or a scalar (standing for the ISO string v / the string s)
JScalar(v, str) == [kind |-> "scalar", items |-> <<>>, members |-> <<>>, v |-> v, s |-> str]
JList(items) == [kind |-> "list", items |-> items, members |-> <<>>, v |-> IsoEmpty, s |-> ""]
JDict(members) == [kind |-> "dict", items |-> <<>>, members |-> members, v |-> IsoEmpty, s |-> ""]

\* outcome of parsing one value starting at token i:
\*   st = "ok": the value val, the next unread token at next
\*   st = "err": json.JSONDecodeError
\*   st = "huge": ValueError of the int conversion (not a JSONDecodeError)
Parsed(val, next) == [st |-> "ok", val |-> val, next |-> next]
Failed(st) == [st |-> st, val |-> JScalar(IsoEmpty, ""), next |-> 0]

IsTok(ts, i, t) == i <= Len(ts) /\ ts[i].t = t

RECURSIVE ParseValue(_, _), ParseItems(_, _, _), ParseMembers(_, _, _)

ParseValue(ts, i) ==
    IF IsTok(ts, i, "scalar") THEN Parsed(JScalar(ts[i].v, ts[i].s), i + 1)
    ELSE IF IsTok(ts, i, "huge") THEN Failed("huge")
    ELSE IF IsTok(ts, i, "[")
         THEN (IF IsTok(ts, i + 1, "]") THEN Parsed(JList(<<>>), i + 2)
               ELSE ParseItems(ts, i + 1, <<>>))
    ELSE IF IsTok(ts, i, "{")
         THEN (IF IsTok(ts, i + 1, "}") THEN Parsed(JDict(<<>>), i + 2)
               ELSE ParseMembers(ts, i + 1, <<>>))
    ELSE Failed("err")

\* the values of a list from token i on, acc the values read so far
ParseItems(ts, i, acc) ==
    LET item == ParseValue(ts, i)
    IN  IF item.st # "ok" THEN item
        ELSE IF IsTok(ts, item.next, ",")
             THEN ParseItems(ts, item.next + 1, Append(acc, item.val))
        ELSE IF IsTok(ts, item.next, "]")
             THEN Parsed(JList(Append(acc, item.val)), item.next + 1)
        ELSE Failed("err")

\* the members of an object from token i on, acc the members read so far
ParseMembers(ts, i, acc) ==
    LET member ==
            IF IsTok(ts, i, "kv")
            THEN Parsed([k |-> ts[i].k, val |-> JScalar(ts[i].v, ts[i].s)], i + 1)
            ELSE IF IsTok(ts, i, "key")
                 THEN LET inner == ParseValue(ts, i + 1)
                      IN  IF inner.st # "ok" THEN inner
                          ELSE Parsed([k |-> ts[i].k, val |-> inner.val], inner.next)
            ELSE Failed("err")
    IN  IF member.st # "ok" THEN member
        ELSE IF IsTok(ts, member.next, ",")
             THEN ParseMembers(ts, member.next + 1, Append(acc, member.val))
        ELSE IF IsTok(ts, member.next, "}")
             THEN Parsed(JDict(Append(acc, member.val)), member.next + 1)
        ELSE Failed("err")

\* whitespace between tokens is skipped
NoWhitespace(ts) == SelectSeq(ts, LAMBDA tok : tok.t # "nl")

\* json.loads: one value, nothing but whitespace after it
JsonLoads(raw) ==
    LET ts == NoWhitespace(raw)
        top == ParseValue(ts, 1)
    IN  IF top.st # "ok" THEN top
        ELSE IF top.next = Len(ts) + 1 THEN top
        ELSE Failed("err")

\* dict lookups: a key written twice keeps its last value
HasKey(d, k) == \E i \in 1..Len(d.members) : d.members[i].k = k
ValueOf(d, k) == d.members[MaxOf({i \in 1..Len(d.members) : d.members[i].k = k})].val


-----------------------------------------------------------------------------
(* harness.py: parse_blocks_from_text, from the parsed payload to the blocks *)

ListKeys == <<"schedule", "blocks", "events", "focus_blocks">>

\* lines 427-434: a dict is replaced by the list under its first recognised
\* key, or wrapped as a single entry
Normalize(data) ==
    IF data.kind = "dict"
    THEN LET listed == {j \in 1..Len(ListKeys) :
                           /\ HasKey(data, ListKeys[j])
                           /\ ValueOf(data, ListKeys[j]).kind = "list"}
         IN  IF listed # {} THEN ValueOf(data, ListKeys[MinOf(listed)])
             ELSE JList(<<data>>)
    ELSE data

\* the value a field resolves to, as the string str(value): a scalar is its
\* string; an empty list or dict is falsy, a non-empty one is no ISO string
StrOf(val) ==
    IF val.kind = "scalar" THEN val.v
    ELSE IF val.items = <<>> /\ val.members = <<>> THEN IsoEmpty
    ELSE IsoBad

\* item.get(k1, item.get(k2, "")): k1 wins whenever the key is present
Get2(item, k1, k2) ==
    IF HasKey(item, k1) THEN StrOf(ValueOf(item, k1))
    ELSE IF HasKey(item, k2) THEN StrOf(ValueOf(item, k2))
    ELSE IsoEmpty

\* item.get("title", item.get("name", item.get("summary", "Focus Block")))
TitleOf(item) ==
    IF HasKey(item, "title") THEN ValueOf(item, "title").s
    ELSE IF HasKey(item, "name") THEN ValueOf(item, "name").s
    ELSE IF HasKey(item, "summary") THEN ValueOf(item, "summary").s
    ELSE "Focus Block"

\* lines 440-455, one entry: the blocks it appends (none or one)
EntryBlocks(item) ==
    IF item.kind # "dict" THEN <<>>
    ELSE LET start_str == Get2(item, "start", "start_time")
             end_str == Get2(item, "end", "end_time")
         IN  IF ~Truthy(start_str) \/ ~Truthy(end_str) THEN <<>>
             ELSE IF ParseIsoFails(start_str) \/ ParseIsoFails(end_str) THEN <<>>
             ELSE <<ScheduledBlock(TitleOf(item), parse_iso(start_str), parse_iso(end_str))>>

RECURSIVE BlocksOf(_)
BlocksOf(items) ==
    IF items = <<>> THEN <<>>
    ELSE EntryBlocks(Head(items)) \o BlocksOf(Tail(items))

\* parse_blocks_from_text as a whole: raised, or the list returned
ParseBlocks(ts) ==
    LET cand == Candidate(ts)
        loaded == JsonLoads(cand.raw)
        data == Normalize(loaded.val)
    IN  IF ~cand.found THEN [raised |-> FALSE, blocks |-> <<>>]
        ELSE IF loaded.st = "huge" THEN [raised |-> TRUE, blocks |-> <<>>]
        ELSE IF loaded.st = "err" THEN [raised |-> FALSE, blocks |-> <<>>]
        ELSE IF data.kind # "list" THEN [raised |-> FALSE, blocks |-> <<>>]
        ELSE [raised |-> FALSE, blocks |-> BlocksOf(data.items)]

\* lines 388-457
ParseBlocksFromText ==
    /\ pc = "extract"
    /\ LET out == ParseBlocks(text)
       IN  IF out.raised
           THEN pc' = "raised" /\ UNCHANGED blocks
           ELSE pc' = "parsed" /\ blocks' = out.blocks
    /\ UNCHANGED <<text, existing, constraints, calendar, window, ScoreVars, composite, events,
                   noise_log, conversation, overlap, LoopVars>>

-----------------------------------------------------------------------------
(* Texts a model reply can consist of *)

RECURSIVE Join(_)
Join(parts) ==
    IF parts = <<>> THEN <<>>
    ELSE IF Len(parts) = 1 THEN parts[1]
    ELSE parts[1] \o <<Tok(",")>> \o Join(Tail(parts))

Obj(members) == <<Tok("{")>> \o Join(members) \o <<Tok("}")>>
Arr(items) == <<Tok("[")>> \o Join(items) \o <<Tok("]")>>

EntrySet ==
    { Obj(<< <<KVStr("title", "Deep work")>>,
             <<KV("start", IsoZ(At(1, 9, 0)))>>, <<KV("end", IsoZ(At(1, 10, 30)))>> >>),
      Obj(<< <<KV("start_time", IsoZ(At(2, 10, 0)))>>, <<KV("end_time", IsoZ(At(2, 11, 0)))>> >>),
      Obj(<< <<KV("start", IsoNaive(At(1, 14, 0)))>>, <<KV("end", IsoNaive(At(1, 15, 0)))>> >>),
      Obj(<< <<KV("start", IsoZ(At(1, 9, 0)))>> >>),
      Obj(<< <<KV("start", IsoBad)>>, <<KV("end", IsoZ(At(1, 10, 0)))>> >>),
      Obj(<< <<KV("start", IsoEmpty)>>, <<KV("start_time", IsoZ(At(1, 14, 0)))>>,
             <<KV("end", IsoZ(At(1, 15, 0)))>> >>),
      <<Tok("scalar")>>,
      <<Tok("huge")>> }

\* how the entries are laid out as a payload
Payloads(entries) ==
    { Arr(entries),
      Obj(<< <<Key("blocks")>> \o Arr(entries) >>),
      Obj(<< <<KVStr("note", "plan")>>, <<Key("plan")>> \o Arr(entries) >>),
      <<Tok("[")>> \o Join(entries),
      Join(entries) }

\* what surrounds the payload
Replies(payload) ==
    { <<Tok("ticks"), Tok("json"), Tok("nl")>> \o payload \o <<Tok("nl"), Tok("ticks")>>,
      <<Tok("prose"), Tok("nl"), Tok("ticks"), Tok("nl"), Tok("nl")>> \o payload
          \o <<Tok("nl"), Tok("ticks"), Tok("nl"), Tok("prose")>>,
      <<Tok("ticks"), Tok("json"), Tok("nl")>> \o payload,
      <<Tok("prose")>> \o payload \o <<Tok("prose")>>,
      <<Tok("ticks"), Tok("nl"), Tok("prose"), Tok("nl"), Tok("ticks"), Tok("nl"),
        Tok("ticks"), Tok("json"), Tok("nl")>> \o payload \o <<Tok("nl"), Tok("ticks")>>,
      payload }

TextSet ==
    UNION { UNION { Replies(payload) : payload \in Payloads(entries) } :
            entries \in SeqsUpTo(EntrySet, MaxEntries) }

NoScore ==
    /\ blocks = <<>>
    /\ existing = <<>>
    /\ constraints = EmptyDict
    /\ ScoreStart

InitExtract ==
    /\ pc = "extract"
    /\ text \in TextSet
    /\ NoScore
    /\ calendar = <<>>
    /\ window = <<>>
    /\ events = <<>>
    /\ composite = 0 - 1
    /\ NoOtherCall

NextExtract == ParseBlocksFromText

SpecExtract == InitExtract /\ [][NextExtract]_vars


-----------------------------------------------------------------------------
(* harness.py: run_bare_eval, from the reply text to the score *)

\* lines 502 and 526: the blocks parse_blocks_from_text returned are handed
\* to score_scenario together with the normalized events and the constraints
ScoreParsedBlocks ==
    /\ pc = "parsed"
    /\ pc' = "completeness"
    /\ UNCHANGED <<Inputs, ScoreVars, composite, events>>

\* replies that follow the prompt: a json fence around an array of entries
JudgeTexts ==
    { <<Tok("ticks"), Tok("json"), Tok("nl")>> \o Arr(entries) \o <<Tok("nl"), Tok("ticks")>> :
        entries \in SeqsUpTo(EntrySet, MaxEntries) }

\* constraint specs every rule of which has all its fields
JudgeConstraints ==
    { EmptyDict,
      Dict1("required_block_count", 2),
      [date_range_start |-> IsoZ(At(1, 0, 0)), date_range_end |-> IsoZ(At(1, 23, 59))],
      [working_hours |-> [start_hour |-> 9, end_hour |-> 17],
       max_duration_minutes |-> 60,
       custom_rules |-> << [type |-> "max_per_day", value |-> 1],
                           [type |-> "min_buffer_minutes", value |-> 15] >>] }

InitJudge ==
    /\ pc = "extract"
    /\ text \in JudgeTexts
    /\ blocks = <<>>
    /\ existing \in SeqsUpTo(EventSet, MaxEvents)
    /\ constraints \in JudgeConstraints
    /\ ScoreStart
    /\ calendar = <<>>
    /\ window = <<>>
    /\ events = <<>>
    /\ composite = 0 - 1
    /\ NoOtherCall

NextJudge ==
    \/ ParseBlocksFromText
    \/ ScoreParsedBlocks
    \/ Next

SpecJudge == InitJudge /\ [][NextJudge]_vars

-----------------------------------------------------------------------------
(* harness.py: expand_recurring_for_scoring *)

\* The value of an RRULE line, as dateutil's rrulestr reads it: ok says
\* whether the rule text is well formed, step is the period in minutes
\* (FREQ and INTERVAL), count is COUNT (0: none) and until is UNTIL
\* (IsoEmpty: none, a Z form or a form without offset).
Rule(ok, step, count, until) ==
    [given |-> TRUE, ok |-> ok, step |-> step, count |-> count, until |-> until]
\* no RRULE line, or an empty one
NoRule == [given |-> FALSE, ok |-> TRUE, step |-> Day, count |-> 0, until |-> IsoEmpty]

\* A line of the calendar text.  t is
\*   "begin"  BEGIN:VEVENT
\*   "end"    END:VEVENT
\*   "prop"   KEY[;TZID=zone]:VALUE; zoned says whether the key carries a
\*            TZID parameter and tz is the UTC offset of that zone
\*   "noise"  a line without a colon
Line(t, key, v, rule, str) ==
    [t |-> t, key |-> key, zoned |-> FALSE, tz |-> 0, v |-> v, rule |-> rule, s |-> str]
BeginVEvent == Line("begin", "", IsoEmpty, NoRule, "")
EndVEvent == Line("end", "", IsoEmpty, NoRule, "")
Prop(key, v) == Line("prop", key, v, NoRule, "")
PropTZ(key, tz, v) == [Prop(key, v) EXCEPT !.zoned = TRUE, !.tz = tz]
Summary(str) == Line("prop", "SUMMARY", IsoEmpty, NoRule, str)
RRule(rule) == Line("prop", "RRULE", IsoEmpty, rule, "")
Noise == Line("noise", "", IsoEmpty, NoRule, "")

\* lines 306-311: the dict `current`, read through get() with its defaults
EmptyCurrent ==
    [SUMMARY |-> "Untitled", DTSTART |-> IsoEmpty, DTEND |-> IsoEmpty, RRULE |-> NoRule]

\* lines 347-350: the parameters of the key are dropped, the value is kept
SetKey(current, line) ==
    IF line.key = "SUMMARY" THEN [current EXCEPT !.SUMMARY = line.s]
    ELSE IF line.key = "DTSTART" THEN [current EXCEPT !.DTSTART = line.v]
    ELSE IF line.key = "DTEND" THEN [current EXCEPT !.DTEND = line.v]
    ELSE IF line.key = "RRULE" THEN [current EXCEPT !.RRULE = line.rule]
    ELSE current

\* lines 302-311 and 347-350: the dict `current` when the loop reaches the
\* END:VEVENT at line e.  It was emptied at the last BEGIN:VEVENT before e (or
\* never) and holds, for every key, the value of the last line with that key
\* since.
CurrentAt(lines, e) ==
    LET begin == MaxOf({0} \cup { i \in 1..(e - 1) : lines[i].t = "begin" })
        last(key) == MaxOf({0} \cup { i \in (begin + 1)..(e - 1) :
                                        lines[i].t = "prop" /\ lines[i].key = key })
        get(key) == IF last(key) = 0 THEN EmptyCurrent[key]
                    ELSE SetKey(EmptyCurrent, lines[last(key)])[key]
    IN  [SUMMARY |-> get("SUMMARY"), DTSTART |-> get("DTSTART"),
         DTEND |-> get("DTEND"), RRULE |-> get("RRULE")]

\* lines 303-311: the value of `current` at every END:VEVENT, in the order of
\* the lines
ReadLines(lines) ==
    LET ends == SelectSeq([i \in 1..Len(lines) |-> i], LAMBDA i : lines[i].t = "end")
    IN  [j \in 1..Len(ends) |-> CurrentAt(lines, ends[j])]

\* outcome of a normalizer (or of one record of it): raised, or the events
Returned(evs) == [raised |-> FALSE, events |-> evs]
Aborted == [raised |-> TRUE, events |-> <<>>]

\* rs <= start <= re_ or rs <= end <= re_
InWindow(start, end, rs, re_) ==
    OrR(AndR(LeR(rs, start), LeR(start, re_)), AndR(LeR(rs, end), LeR(end, re_)))

\* lines 342-343, 345-346 and 382-383
SingleOccurrence(summary, start, end, rs, re_) ==
    LET in == InWindow(start, end, rs, re_)
    IN  IF in = "E" THEN Aborted
        ELSE IF in = "T" THEN Returned(<<ExistingEvent(summary, start, end)>>)
        ELSE Returned(<<>>)

\* rrulestr(..., dtstart=start.replace(tzinfo=None)) raises ValueError on a
\* malformed rule and on an UNTIL written in UTC, the dtstart being naive
RRuleStrFails(rule) == ~rule.ok \/ rule.until.form = "Z"

\* rule.between(after, before, inc=True): the wall-clock readings
\* dtstart + k * step within [after, before], COUNT and UNTIL, ascending
Between(rule, dtstart, after, before) ==
    LET last == IF before < dtstart THEN 0 - 1 ELSE (before - dtstart) \div rule.step
        ks == {k \in 0..last :
                 /\ dtstart + k * rule.step >= after
                 /\ rule.count > 0 => k < rule.count
                 /\ rule.until.form = "naive" => dtstart + k * rule.step <= rule.until.w}
    IN  IF ks = {} THEN <<>>
        ELSE [j \in 1..Cardinality(ks) |-> dtstart + (MinOf(ks) + j - 1) * rule.step]

\* ExpandEvent letting the exception of a malformed rule escape
ExpandEvent_abort_on_bad_rule(current, rs, re_) ==
    IF ParseIsoFails(current.DTSTART) \/ ParseIsoFails(current.DTEND) THEN Returned(<<>>)
    ELSE LET start == parse_iso(current.DTSTART)
             end == parse_iso(current.DTEND)
             occs == Between(current.RRULE, start.w, rs.w, re_.w)
         IN  IF SubFails(end, start) THEN Aborted
             ELSE IF current.RRULE.given /\ RRuleStrFails(current.RRULE) THEN Aborted
             ELSE IF current.RRULE.given
                  THEN Returned([j \in 1..Len(occs) |->
                            ExistingEvent(current.SUMMARY,
                                          DT(occs[j], 0, TRUE),
                                          DT(occs[j] + Sub(end, start), 0, TRUE))])
             ELSE SingleOccurrence(current.SUMMARY, start, end, rs, re_)

\* lines 308-346: the events one END:VEVENT appends
ExpandEvent(current, rs, re_) ==
    IF ParseIsoFails(current.DTSTART) \/ ParseIsoFails(current.DTEND) THEN Returned(<<>>)
    ELSE LET start == parse_iso(current.DTSTART)
             end == parse_iso(current.DTEND)
             occs == Between(current.RRULE, start.w, rs.w, re_.w)
         IN  IF SubFails(end, start) THEN Aborted
             ELSE IF current.RRULE.given /\ ~RRuleStrFails(current.RRULE)
                  THEN Returned([j \in 1..Len(occs) |->
                            ExistingEvent(current.SUMMARY,
                                          DT(occs[j], 0, TRUE),
                                          DT(occs[j] + Sub(end, start), 0, TRUE))])
             ELSE SingleOccurrence(current.SUMMARY, start, end, rs, re_)

RECURSIVE ExpandEvents(_, _, _)
ExpandEvents(vevents, rs, re_) ==
    IF vevents = <<>> THEN Returned(<<>>)
    ELSE LET first == ExpandEvent(Head(vevents), rs, re_)
             rest == ExpandEvents(Tail(vevents), rs, re_)
         IN  IF first.raised THEN Aborted
             ELSE IF rest.raised THEN Aborted
             ELSE Returned(first.events \o rest.events)

\* lines 290-352
expand_recurring_for_scoring(ical_data, range_start, range_end) ==
    IF ParseIsoFails(range_start) \/ ParseIsoFails(range_end) THEN Aborted
    ELSE ExpandEvents(ReadLines(ical_data),
                      parse_iso(range_start), parse_iso(range_end))

-----------------------------------------------------------------------------
(* harness.py: expand_gcal_json_for_scoring *)

\* the start / end object of an entry; IsoEmpty stands for an absent field
GcalTime(dateTime, date) == [dateTime |-> dateTime, date |-> date]
GcalEvent(summary, start, end) == [summary |-> summary, start |-> start, end |-> end]

\* a or b
OrElse(a, b) == IF Truthy(a) THEN a ELSE b

\* lines 366-383: the events one entry appends
GcalEntry(gcal_event, rs, re_) ==
    LET start_str == OrElse(gcal_event.start.dateTime, gcal_event.start.date)
        end_str == OrElse(gcal_event.end.dateTime, gcal_event.end.date)
    IN  IF ~Truthy(start_str) \/ ~Truthy(end_str) THEN Returned(<<>>)
        ELSE IF ParseIsoFails(start_str) \/ ParseIsoFails(end_str) THEN Returned(<<>>)
        ELSE SingleOccurrence(gcal_event.summary, parse_iso(start_str), parse_iso(end_str),
                              rs, re_)

RECURSIVE GcalEntries(_, _, _)
GcalEntries(entries, rs, re_) ==
    IF entries = <<>> THEN Returned(<<>>)
    ELSE LET first == GcalEntry(Head(entries), rs, re_)
             rest == GcalEntries(Tail(entries), rs, re_)
         IN  IF first.raised THEN Aborted
             ELSE IF rest.raised THEN Aborted
             ELSE Returned(first.events \o rest.events)

\* lines 355-385
expand_gcal_json_for_scoring(gcal_data, range_start, range_end) ==
    IF ParseIsoFails(range_start) \/ ParseIsoFails(range_end) THEN Aborted
    ELSE GcalEntries(gcal_data, parse_iso(range_start), parse_iso(range_end))

-----------------------------------------------------------------------------
(* The two normalizers as actions *)

Normalized(out) ==
    /\ IF out.raised
       THEN pc' = "raised" /\ UNCHANGED events
       ELSE pc' = "normalized" /\ events' = out.events
    /\ UNCHANGED <<Inputs, ScoreVars, composite>>

ExpandRecurringForScoring ==
    /\ pc = "ical"
    /\ Normalized(expand_recurring_for_scoring(calendar.lines,
                                               window.range_start, window.range_end))

ExpandGcalJsonForScoring ==
    /\ pc = "gcal"
    /\ Normalized(expand_gcal_json_for_scoring(calendar.entries,
                                               window.range_start, window.range_end))

-----------------------------------------------------------------------------
(* Calendars and windows *)

\* the lines of one VEVENT
VEvent(summary, dtstart, dtend, rrule) ==
    <<BeginVEvent>> \o summary \o <<dtstart, dtend>> \o rrule \o <<EndVEvent>>

\* the UTC offset of America/New_York in January
NewYork == 0 - 300

VEventSet ==
    { VEvent(<<Summary("Standup")>>, Prop("DTSTART", IsoZ(At(1, 9, 0))),
             Prop("DTEND", IsoZ(At(1, 9, 30))), <<RRule(Rule(TRUE, Day, 0, IsoEmpty))>>),
      VEvent(<<Summary("Late sync")>>, Prop("DTSTART", IsoZ(At(0, 23, 30))),
             Prop("DTEND", IsoZ(At(1, 0, 30))), <<RRule(Rule(TRUE, 7 * Day, 0, IsoEmpty))>>),
      VEvent(<<Summary("Late one-off")>>, Prop("DTSTART", IsoZ(At(0, 23, 30))),
             Prop("DTEND", IsoZ(At(1, 0, 30))), <<>>),
      VEvent(<<Summary("Review")>>, Prop("DTSTART", IsoZ(At(3, 14, 0))),
             Prop("DTEND", IsoZ(At(3, 15, 0))), <<>>),
      VEvent(<<Summary("Early")>>, Prop("DTSTART", IsoZ(At(1, 3, 0))),
             Prop("DTEND", IsoZ(At(1, 4, 0))), <<RRule(Rule(TRUE, Day, 2, IsoEmpty))>>),
      VEvent(<<Summary("Sprint")>>, Prop("DTSTART", IsoZ(At(2, 10, 0))),
             Prop("DTEND", IsoZ(At(2, 11, 0))),
             <<RRule(Rule(TRUE, Day, 0, IsoZ(At(4, 0, 0))))>>),
      VEvent(<<Summary("Sprint")>>, Prop("DTSTART", IsoZ(At(2, 10, 0))),
             Prop("DTEND", IsoZ(At(2, 11, 0))),
             <<RRule(Rule(TRUE, Day, 0, IsoNaive(At(4, 0, 0))))>>),
      VEvent(<<Summary("Garbled")>>, Prop("DTSTART", IsoZ(At(2, 13, 0))),
             Prop("DTEND", IsoZ(At(2, 14, 0))), <<RRule(Rule(FALSE, Day, 0, IsoEmpty))>>),
      VEvent(<<Summary("Evening")>>, PropTZ("DTSTART", NewYork, IsoNaive(At(5, 20, 0))),
             PropTZ("DTEND", NewYork, IsoNaive(At(5, 21, 0))), <<>>),
      VEvent(<<Summary("Evening")>>, PropTZ("DTSTART", NewYork, IsoNaive(At(5, 20, 0))),
             PropTZ("DTEND", NewYork, IsoNaive(At(5, 21, 0))),
             <<RRule(Rule(TRUE, Day, 1, IsoEmpty))>>),
      VEvent(<<Summary("Open end")>>, Prop("DTSTART", IsoZ(At(2, 9, 0))),
             Prop("UID", IsoEmpty), <<>>),
      VEvent(<<Summary("Bad start")>>, Prop("DTSTART", IsoBad),
             Prop("DTEND", IsoZ(At(2, 10, 0))), <<>>),
      VEvent(<<Summary("Mixed")>>, Prop("DTSTART", IsoZ(At(2, 9, 0))),
             Prop("DTEND", IsoNaive(At(2, 10, 0))), <<>>),
      VEvent(<<Summary("Next week")>>, Prop("DTSTART", IsoZ(At(8, 9, 0))),
             Prop("DTEND", IsoZ(At(8, 10, 0))), <<>>),
      VEvent(<<>>, Prop("DTSTART", IsoZ(At(4, 16, 0))),
             Prop("DTEND", IsoZ(At(4, 17, 0))), <<>>) }

\* the events alone, or inside a VCALENDAR with its header lines
ICalendars(vevents) ==
    { Flatten(vevents),
      <<Prop("BEGIN", IsoEmpty), Prop("VERSION", IsoEmpty), Noise>>
          \o Flatten(vevents) \o <<Prop("END", IsoEmpty)>> }

GcalEventSet ==
    { GcalEvent("Dentist", GcalTime(IsoOff(At(1, 9, 0), NewYork), IsoEmpty),
                GcalTime(IsoOff(At(1, 10, 0), NewYork), IsoEmpty)),
      GcalEvent("Lunch", GcalTime(IsoZ(At(3, 12, 0)), IsoEmpty),
                GcalTime(IsoZ(At(3, 13, 0)), IsoEmpty)),
      GcalEvent("Holiday", GcalTime(IsoEmpty, IsoDate(At(2, 0, 0))),
                GcalTime(IsoEmpty, IsoDate(At(3, 0, 0)))),
      GcalEvent("Open end", GcalTime(IsoZ(At(2, 9, 0)), IsoEmpty),
                GcalTime(IsoEmpty, IsoEmpty)),
      GcalEvent("Bad start", GcalTime(IsoBad, IsoEmpty),
                GcalTime(IsoZ(At(2, 10, 0)), IsoEmpty)),
      GcalEvent("Late one-off", GcalTime(IsoZ(At(0, 23, 30)), IsoEmpty),
                GcalTime(IsoZ(At(1, 0, 30)), IsoEmpty)),
      GcalEvent("Next week", GcalTime(IsoZ(At(8, 9, 0)), IsoEmpty),
                GcalTime(IsoZ(At(8, 10, 0)), IsoEmpty)) }

CalendarSet ==
    UNION { { [format |-> "ical", lines |-> c, entries |-> <<>>] : c \in ICalendars(vevents) } :
            vevents \in SeqsUpTo(VEventSet, MaxCalEvents) }
    \cup { [format |-> "gcal", lines |-> <<>>, entries |-> entries] :
           entries \in SeqsUpTo(GcalEventSet, MaxCalEvents) }

Window(range_start, range_end) == [range_start |-> range_start, range_end |-> range_end]

\* the working week in UTC, the same week in New York time, two days of it
WindowSet ==
    { Window(IsoZ(At(1, 0, 0)), IsoZ(At(5, 23, 59))),
      Window(IsoOff(At(1, 0, 0), NewYork), IsoOff(At(5, 23, 59), NewYork)),
      Window(IsoZ(At(2, 0, 0)), IsoZ(At(3, 23, 59))) }

InitNorm ==
    /\ calendar \in CalendarSet
    /\ window \in WindowSet
    /\ pc = calendar.format
    /\ events = <<>>
    /\ text = <<>>
    /\ NoScore
    /\ composite = 0 - 1
    /\ NoOtherCall

NextNorm ==
    \/ ExpandRecurringForScoring
    \/ ExpandGcalJsonForScoring

SpecNorm == InitNorm /\ [][NextNorm]_vars

-----------------------------------------------------------------------------
(* add_realistic_noise and _noisify_event *)

\* the most events a fixture holds, and the most calls of add_realistic_noise
MaxFixtureEvents == 2
MaxCalls == 3

\* a line KEY:VALUE whose value is plain text
Text(key, str) == Line("prop", key, IsoEmpty, NoRule, str)
BeginVCalendar == Text("BEGIN", "VCALENDAR")
EndVCalendar == Text("END", "VCALENDAR")
Version == Text("VERSION", "2.0")

TIMEZONES == <<"America/New_York", "America/Chicago", "America/Los_Angeles", "Europe/London">>

\* the dict offsets, in hours
offsets ==
    [tz \in {"America/New_York", "America/Chicago", "America/Los_Angeles", "Europe/London"} |->
        IF tz = "America/New_York" THEN 0 - 5
        ELSE IF tz = "America/Chicago" THEN 0 - 6
        ELSE IF tz = "America/Los_Angeles" THEN 0 - 8
        ELSE 0]

\* every zone that has a block, used or not
sorted_every_zone(used_tzs) ==
    <<"America/Chicago", "America/Los_Angeles", "America/New_York", "Europe/London">>

\* sorted(used_tzs): the zone names in alphabetical order
sorted(used_tzs) ==
    SelectSeq(<<"America/Chicago", "America/Los_Angeles", "America/New_York", "Europe/London">>,
              LAMBDA tz : tz \in used_tzs)

\* VTIMEZONE_BLOCKS[tz].split("\n"): the wall clocks of the sub-blocks lie in
\* 1970, before every window
VTIMEZONE_BLOCKS(tz) ==
    <<Text("BEGIN", "VTIMEZONE"), Text("TZID", tz),
      Text("BEGIN", "STANDARD"), Prop("DTSTART", IsoNaive(0 - Day)),
      RRule(Rule(TRUE, 365 * Day, 0, IsoEmpty)),
      Text("TZOFFSETFROM", ""), Text("TZOFFSETTO", ""), Text("TZNAME", ""),
      Text("END", "STANDARD"),
      Text("BEGIN", "DAYLIGHT"), Prop("DTSTART", IsoNaive(0 - 2 * Day)),
      RRule(Rule(TRUE, 365 * Day, 0, IsoEmpty)),
      Text("TZOFFSETFROM", ""), Text("TZOFFSETTO", ""), Text("TZNAME", ""),
      Text("END", "DAYLIGHT"),
      Text("END", "VTIMEZONE")>>

\* a generator that is shared by the calls: its stream moves on with every call
Random_shared(seed) ==
    [k \in 1..(MaxFixtureEvents + 1) |->
        LET digit == ((seed + Len(noise_log)) \div (10 ^ (k - 1))) % 10
        IN  [convert_tz |-> digit % 5 # 0,
             choice |-> IF digit % 5 = 0 THEN "" ELSE TIMEZONES[digit % 5],
             valarm |-> digit >= 5]]

\* What the generator random.Random(seed) hands to the k-th call of
\* _noisify_event.  The generator is a function of the seed alone; a seed of
\* the model is read as one decimal digit per event, so that the seeds run
\* through every combination of draws: whether rng.random() < 0.3 and
\* which zone rng.choice(TIMEZONES) then returns (0: no conversion), and
\* whether the last rng.random() < 0.5 adds a VALARM.
Random(seed) ==
    [k \in 1..(MaxFixtureEvents + 1) |->
        LET digit == (seed \div (10 ^ (k - 1))) % 10
        IN  [convert_tz |-> digit % 5 # 0,
             choice |-> IF digit % 5 = 0 THEN "" ELSE TIMEZONES[digit % 5],
             valarm |-> digit >= 5]]

SeedSet == 0..(10 ^ MaxFixtureEvents - 1)

\* lines 206-224: the line of the noisy event that stands for `line`
Rewritten(line, chosen_tz) ==
    [PropTZ(line.key, offsets[chosen_tz] * 60, IsoNaive(line.v.w + offsets[chosen_tz] * 60))
        EXCEPT !.s = chosen_tz]

\* the guard without `not has_rrule`
IsRewritten_with_rrule(line, chosen_tz, has_rrule) ==
    /\ chosen_tz # ""
    /\ line.t = "prop" /\ line.key \in {"DTSTART", "DTEND"} /\ ~line.zoned
    /\ line.v.form = "Z"

\* line 206 and line 210: the guard of the rewrite
IsRewritten(line, chosen_tz, has_rrule) ==
    /\ chosen_tz # ""
    /\ ~has_rrule
    /\ line.t = "prop" /\ line.key \in {"DTSTART", "DTEND"} /\ ~line.zoned
    /\ line.v.form = "Z"

\* lines 200-226: the loop over event_lines; the result is the pair of the
\* lines appended and the zones added to used_tzs
RECURSIVE NoisifyLines(_, _, _, _, _)
NoisifyLines(event_lines, i, chosen_tz, has_rrule, acc) ==
    IF i > Len(event_lines) THEN acc
    ELSE LET line == event_lines[i]
         IN  IF line.t \in {"begin", "end"}
             THEN NoisifyLines(event_lines, i + 1, chosen_tz, has_rrule, acc)
             ELSE IF IsRewritten(line, chosen_tz, has_rrule)
             THEN NoisifyLines(event_lines, i + 1, chosen_tz, has_rrule,
                               [result |-> Append(acc.result, Rewritten(line, chosen_tz)),
                                used_tzs |-> acc.used_tzs \cup {chosen_tz}])
             ELSE NoisifyLines(event_lines, i + 1, chosen_tz, has_rrule,
                               [acc EXCEPT !.result = Append(@, line)])

\* lines 247-252
VAlarm ==
    <<Text("BEGIN", "VALARM"), Text("ACTION", "DISPLAY"), Text("TRIGGER", "-PT5M"),
      Text("DESCRIPTION", "Reminder"), Text("END", "VALARM")>>

\* _noisify_event(event_lines, idx, rng, used_tzs), given the draws the
\* generator hands to this call.  The lines whose presence or value the other
\* draws decide (UID, CREATED, ..., ATTENDEE) are written with one value:
\* none of them has a key the rest of the program reads.
_noisify_event(event_lines, draws, used_tzs) ==
    LET chosen_tz == IF draws.convert_tz THEN draws.choice ELSE ""
        has_rrule == \E i \in 1..Len(event_lines) :
                        /\ event_lines[i].t = "prop"
                        /\ event_lines[i].key = "RRULE"
                        /\ ~event_lines[i].zoned
        head == <<BeginVEvent, Text("UID", "uid"), Text("CREATED", ""),
                  Text("LAST-MODIFIED", ""), Text("SEQUENCE", ""),
                  Text("STATUS", "CONFIRMED"), Text("TRANSP", "OPAQUE")>>
        body == NoisifyLines(event_lines, 1, chosen_tz, has_rrule,
                             [result |-> head, used_tzs |-> used_tzs])
        fields == <<Text("DESCRIPTION", "text"), Text("LOCATION", "Zoom"),
                    Text("ORGANIZER", "mailto"), Text("ATTENDEE", "mailto")>>
    IN  [result |-> body.result \o fields
                    \o (IF draws.valarm THEN VAlarm ELSE <<>>) \o <<EndVEvent>>,
         used_tzs |-> body.used_tzs]

\* lines 164-166
RECURSIVE Blocks(_)
Blocks(tzs) ==
    IF tzs = <<>> THEN <<>>
    ELSE VTIMEZONE_BLOCKS(Head(tzs)) \o Blocks(Tail(tzs))

\* lines 125-131: the locals before the loop
NoiseStart(seed) ==
    [rng |-> Random(seed), output |-> <<>>, used_tzs |-> {}, event_idx |-> 0,
     in_event |-> FALSE, event_lines |-> <<>>]

\* lines 133-170: one round of the loop
NoiseStep(st, line) ==
    IF line = BeginVCalendar
    THEN [st EXCEPT !.output = @ \o <<BeginVCalendar, Text("PRODID", ""), Version,
                                       Text("CALSCALE", "GREGORIAN"), Text("METHOD", "PUBLISH"),
                                       Text("X-WR-CALNAME", ""), Text("X-WR-TIMEZONE", "")>>]
    ELSE IF line = Version THEN st
    ELSE IF line.t = "begin" THEN [st EXCEPT !.in_event = TRUE, !.event_lines = <<line>>]
    ELSE IF line.t = "end" /\ st.in_event
    THEN LET noisy == _noisify_event(Append(st.event_lines, line),
                                     st.rng[st.event_idx + 1], st.used_tzs)
         IN  [st EXCEPT !.output = @ \o noisy.result,
                        !.used_tzs = noisy.used_tzs,
                        !.event_idx = @ + 1,
                        !.in_event = FALSE]
    ELSE IF st.in_event THEN [st EXCEPT !.event_lines = Append(@, line)]
    ELSE IF line = EndVCalendar
    THEN [st EXCEPT !.output = @ \o Blocks(sorted(st.used_tzs)) \o <<EndVCalendar>>]
    ELSE [st EXCEPT !.output = Append(@, line)]

RECURSIVE NoiseLoop(_, _, _)
NoiseLoop(lines, i, st) ==
    IF i > Len(lines) THEN st
    ELSE NoiseLoop(lines, i + 1, NoiseStep(st, lines[i]))

add_realistic_noise(ical_data, seed) == NoiseLoop(ical_data, 1, NoiseStart(seed)).output

\* one call of add_realistic_noise, written down with what it returned
AddRealisticNoise(fixtures, seeds, calls) ==
    /\ pc = "noise"
    /\ Len(noise_log) < calls
    /\ \E ical_data \in fixtures, seed \in seeds :
          noise_log' = Append(noise_log,
                              [ical_data |-> ical_data, seed |-> seed,
                               output |-> add_realistic_noise(ical_data, seed)])
    /\ UNCHANGED <<pc, text, blocks, existing, constraints, calendar, window,
                   conversation, overlap, LoopVars, ScoreVars, composite, events>>

\* clean fixtures: events written in UTC, inside one VCALENDAR
FixtureEvents ==
    { VEvent(<<Summary("Standup")>>, Prop("DTSTART", IsoZ(At(1, 9, 0))),
             Prop("DTEND", IsoZ(At(1, 9, 30))), <<RRule(Rule(TRUE, Day, 0, IsoEmpty))>>),
      VEvent(<<Summary("Review")>>, Prop("DTSTART", IsoZ(At(3, 14, 0))),
             Prop("DTEND", IsoZ(At(3, 15, 0))), <<>>),
      VEvent(<<Summary("Late one-off")>>, Prop("DTSTART", IsoZ(At(0, 23, 30))),
             Prop("DTEND", IsoZ(At(1, 0, 30))), <<>>) }

Fixture(vevents) == <<BeginVCalendar, Version>> \o Flatten(vevents) \o <<EndVCalendar>>

FixtureSet == { Fixture(vevents) : vevents \in SeqsUpTo(FixtureEvents, MaxFixtureEvents) }

\* one call over every fixture and every seed
InitNoise ==
    /\ pc = "noise"
    /\ window \in WindowSet
    /\ calendar = <<>>
    /\ events = <<>>
    /\ text = <<>>
    /\ NoScore
    /\ composite = 0 - 1
    /\ NoOtherCall

NextNoise == AddRealisticNoise(FixtureSet, SeedSet, 1)

SpecNoise == InitNoise /\ [][NextNoise]_vars

\* several calls, over the fixtures of one event and three seeds: one that
\* draws no conversion and no VALARM, one that draws America/Los_Angeles,
\* one that draws America/Los_Angeles and a VALARM
CallFixtures == { Fixture(<<vevent>>) : vevent \in FixtureEvents }
CallSeeds == {0, 3, 8}

NextNoiseCalls == AddRealisticNoise(CallFixtures, CallSeeds, MaxCalls)

SpecNoiseCalls == InitNoise /\ [][NextNoiseCalls]_vars

-----------------------------------------------------------------------------
(* overlaps, called on two intervals in both argument orders *)

\* 09:00, 10:00 and 11:00 UTC, 10:00 UTC written with offset -05:00, and two
\* readings without offset
AwareInstants == {UTC(1, 9, 0), UTC(1, 10, 0), EST(1, 10, 0), UTC(1, 11, 0)}
NaiveInstants == {Naive(1, 10, 0), Naive(1, 11, 0)}

\* an interval is a pair of instants that can be compared with each other;
\* start < end is not required
IntervalSet ==
    { [start |-> s, end |-> e] : s \in AwareInstants, e \in AwareInstants }
    \cup { [start |-> s, end |-> e] : s \in NaiveInstants, e \in NaiveInstants }

\* overlaps(a.start, a.end, b.start, b.end) and overlaps(b.start, b.end,
\* a.start, a.end), a being the block and b the event
Overlaps ==
    /\ pc = "overlaps"
    /\ overlap' = [ab |-> overlaps(blocks[1].start, blocks[1].end,
                                   existing[1].start, existing[1].end),
                   ba |-> overlaps(existing[1].start, existing[1].end,
                                   blocks[1].start, blocks[1].end)]
    /\ pc' = "compared"
    /\ UNCHANGED <<text, blocks, existing, constraints, calendar, window,
                   noise_log, conversation, LoopVars, ScoreVars, composite, events>>

InitOverlaps ==
    /\ pc = "overlaps"
    /\ blocks \in { <<ScheduledBlock("Focus", a.start, a.end)>> : a \in IntervalSet }
    /\ existing \in { <<ExistingEvent("Meeting", b.start, b.end)>> : b \in IntervalSet }
    /\ constraints = EmptyDict
    /\ ScoreStart
    /\ text = <<>>
    /\ calendar = <<>>
    /\ window = <<>>
    /\ events = <<>>
    /\ composite = 0 - 1
    /\ NoOtherCall

NextOverlaps == Overlaps

SpecOverlaps == InitOverlaps /\ [][NextOverlaps]_vars

-----------------------------------------------------------------------------
(* harness.py: extract_blocks_from_conversation *)

\* the most messages of a conversation
MaxMessages == 3

\* An event of a tool call: the keys it has and their values; isdict is
\* FALSE for a list member that is no dict.  IsoEmpty stands for "".
Event(keys, title, start, end) ==
    [isdict |-> TRUE, keys |-> keys, title |-> title, start |-> start, end |-> end]
NotADict == [isdict |-> FALSE, keys |-> {}, title |-> "", start |-> IsoEmpty, end |-> IsoEmpty]

\* A content block of a message.  getattr(item, f, None) or item.get(f) reads
\* the same value from an SDK object and from a dict, so the model keeps the
\* fields only; has_events says whether input has the key "events".
Item(type, name, has_events, evs) ==
    [type |-> type, name |-> name, has_events |-> has_events, events |-> evs]
TextItem == Item("text", "", FALSE, <<>>)
ToolUse(name, evs) == Item("tool_use", name, TRUE, evs)

\* a message whose content is a list, and one whose content is a string
Message(role, content) == [role |-> role, islist |-> TRUE, content |-> content]
TextMessage(role) == [role |-> role, islist |-> FALSE, content |-> <<>>]

\* one round of the loop that keeps the first proposal and never replaces it
ScanItem_keep_first(item, last_proposal_events) ==
    IF item.type # "tool_use" THEN last_proposal_events
    ELSE IF item.name \notin {"propose_events", "propose_and_commit"} THEN last_proposal_events
    ELSE IF last_proposal_events # <<>> THEN last_proposal_events
    ELSE IF item.has_events THEN item.events ELSE <<>>

\* lines 724-735: one round of the loop over the content blocks
ScanItem(item, last_proposal_events) ==
    IF item.type # "tool_use" THEN last_proposal_events
    ELSE IF item.name \notin {"propose_events", "propose_and_commit"} THEN last_proposal_events
    ELSE IF item.has_events THEN item.events ELSE <<>>

\* line 724: the loop over the content blocks of one message
RECURSIVE ScanItems(_, _, _)
ScanItems(content, i, last_proposal_events) ==
    IF i > Len(content) THEN last_proposal_events
    ELSE ScanItems(content, i + 1, ScanItem(content[i], last_proposal_events))

\* lines 717-735: the loop over the messages
RECURSIVE ScanMessages(_, _, _)
ScanMessages(messages, i, last_proposal_events) ==
    IF i > Len(messages) THEN last_proposal_events
    ELSE IF messages[i].role # "assistant"
    THEN ScanMessages(messages, i + 1, last_proposal_events)
    ELSE IF ~messages[i].islist
    THEN ScanMessages(messages, i + 1, last_proposal_events)
    ELSE ScanMessages(messages, i + 1,
                      ScanItems(messages[i].content, 1, last_proposal_events))

\* lines 738-752, one event: the blocks it appends (none or one)
EventBlocks(event) ==
    IF ~event.isdict THEN <<>>
    ELSE LET start_str == IF "start" \in event.keys THEN event.start ELSE IsoEmpty
             end_str == IF "end" \in event.keys THEN event.end ELSE IsoEmpty
         IN  IF ~Truthy(start_str) \/ ~Truthy(end_str) THEN <<>>
             ELSE IF ParseIsoFails(start_str) \/ ParseIsoFails(end_str) THEN <<>>
             ELSE <<ScheduledBlock(IF "title" \in event.keys THEN event.title
                                   ELSE "Focus Block",
                                   parse_iso(start_str), parse_iso(end_str))>>

\* lines 737-752
RECURSIVE ProposalBlocks(_)
ProposalBlocks(evs) ==
    IF evs = <<>> THEN <<>>
    ELSE EventBlocks(Head(evs)) \o ProposalBlocks(Tail(evs))

extract_blocks_from_conversation(messages) ==
    ProposalBlocks(ScanMessages(messages, 1, <<>>))

ExtractBlocksFromConversation ==
    /\ pc = "messages"
    /\ blocks' = extract_blocks_from_conversation(conversation)
    /\ pc' = "collected"
    /\ UNCHANGED <<text, existing, constraints, calendar, window, noise_log,
                   conversation, overlap, LoopVars, ScoreVars, composite, events>>

\* the events a tool call may carry
DeepWork == Event({"title", "start", "end"}, "Deep work", IsoZ(At(1, 9, 0)), IsoZ(At(1, 10, 0)))
Writing == Event({"start", "end"}, "", IsoZ(At(2, 14, 0)), IsoZ(At(2, 15, 0)))
OpenEnded == Event({"title", "start"}, "Open", IsoZ(At(1, 13, 0)), IsoEmpty)
Unparsable == Event({"title", "start", "end"}, "Some day", IsoBad, IsoZ(At(1, 10, 0)))
Gym == Event({"title", "start", "end"}, "Gym", IsoZ(At(3, 7, 0)), IsoZ(At(3, 8, 0)))

ItemSet ==
    { ToolUse("propose_events", <<DeepWork>>),
      ToolUse("propose_and_commit", <<Writing, OpenEnded>>),
      ToolUse("propose_events", <<>>),
      ToolUse("propose_events", <<Unparsable, NotADict>>),
      Item("tool_use", "propose_events", FALSE, <<>>),
      ToolUse("withdraw_events", <<Gym>>),
      TextItem }

\* one content block, or a proposal next to another tool call
ContentSet ==
    { <<item>> : item \in ItemSet }
    \cup { <<ToolUse("propose_events", <<DeepWork>>), ToolUse("propose_events", <<Gym>>)>>,
           <<ToolUse("propose_events", <<Gym>>), ToolUse("withdraw_events", <<DeepWork>>)>>,
           <<ToolUse("propose_events", <<Gym>>), ToolUse("propose_events", <<>>)>> }

MessageSet ==
    { Message("assistant", content) : content \in ContentSet }
    \cup { Message("user", <<ToolUse("propose_events", <<Gym>>)>>),
           Message("user", <<TextItem>>),
           TextMessage("assistant") }

InitConversation ==
    /\ pc = "messages"
    /\ conversation \in SeqsUpTo(MessageSet, MaxMessages)
    /\ NoScore
    /\ text = <<>>
    /\ calendar = <<>>
    /\ window = <<>>
    /\ events = <<>>
    /\ composite = 0 - 1
    /\ noise_log = <<>>
    /\ overlap = <<>>
    /\ NoLoop

NextConversation == ExtractBlocksFromConversation

SpecConversation == InitConversation /\ [][NextConversation]_vars

-----------------------------------------------------------------------------
(* harness.py: run_mcp_eval, the conversation loop *)

MAX_TOOL_ROUNDS == 30

\* the first rounds of a run, in which the model may reply with any response
\* and a tool call may raise; in the rounds after them a reply that goes on
\* is the routine one and its tool call succeeds
MaxFreeRounds == 2

\* EvalResult as constructed: the fields the loop writes
NewEvalResult ==
    [api_rounds |-> 0, tool_calls |-> 0, raw_response |-> <<>>, error |-> FALSE]

\* content blocks of a response: a text block has the attribute text, a
\* tool_use block has id, name and input
TextBlock(str) == Item("text", "", FALSE, <<>>) @@ [text |-> str]
ToolUseBlock(id, name, has_events, evs) ==
    Item("tool_use", name, has_events, evs) @@ [id |-> id]

Response(stop_reason, content) == [stop_reason |-> stop_reason, content |-> content]

\* lines 649-653 and 655-660: the tool result appended for a tool_use block
ToolResult(block, raised) ==
    [type |-> "tool_result", tool_use_id |-> block.id, is_error |-> raised]

\* what messages.create can do: raise, or return a response
Raise == [raised |-> TRUE, response |-> <<>>]
Return(resp) == [raised |-> FALSE, response |-> resp]

\* line 629 and lines 640-665: the response ends the loop
EndsTurn(resp) == resp.stop_reason = "end_turn"
HasToolUse(resp) == \E i \in 1..Len(resp.content) : resp.content[i].type = "tool_use"

Routine == Response("tool_use", <<ToolUseBlock("toolu_1", "find_available_slots", FALSE, <<>>)>>)

GoingOn ==
    { Routine,
      Response("tool_use",
               <<TextBlock("Loading"),
                 ToolUseBlock("toolu_1", "load_ical", FALSE, <<>>),
                 ToolUseBlock("toolu_2", "propose_and_commit", TRUE, <<DeepWork>>)>>),
      Response("max_tokens",
               <<ToolUseBlock("toolu_1", "propose_events", TRUE, <<Gym>>)>>) }

Ending ==
    { Response("end_turn", <<TextBlock("Scheduled"), TextBlock("two blocks")>>),
      Response("end_turn", <<ToolUseBlock("toolu_1", "propose_events", TRUE, <<Writing>>)>>),
      Response("max_tokens", <<TextBlock("Let me")>>),
      Response("tool_use", <<>>) }

\* the responses the model can give in a round, and whether a tool can raise
ModelReplies(round) == IF round < MaxFreeRounds THEN GoingOn \cup Ending ELSE {Routine} \cup Ending
ToolOutcomes(round) == IF round < MaxFreeRounds THEN {FALSE, TRUE} ELSE {FALSE}

\* lines 630-633: raw_response += block.text for the blocks that have text
TextsOf(content) ==
    LET texts == SelectSeq(content, LAMBDA block : block.type = "text")
    IN  [i \in 1..Len(texts) |-> texts[i].text]

\* lines 618-638: the model call of a round and what is done with its
\* response; an exception of the call leaves through the handler of lines
\* 700-705, which returns the result with error set
CallModel ==
    /\ pc = "create"
    /\ round_num < MAX_TOOL_ROUNDS
    /\ \E outcome \in {Raise} \cup { Return(resp) : resp \in ModelReplies(round_num) } :
          /\ call_log' = [call_log EXCEPT !.model = Append(@, outcome)]
          /\ IF outcome.raised
             THEN /\ eval_result' = [eval_result EXCEPT !.error = TRUE]
                  /\ pc' = "returned"
                  /\ UNCHANGED <<response, conversation, tool_results, block_idx>>
             ELSE /\ response' = outcome.response
                  /\ IF EndsTurn(outcome.response)
                     THEN /\ eval_result' = [eval_result EXCEPT
                                 !.api_rounds = @ + 1,
                                 !.raw_response = @ \o TextsOf(outcome.response.content)]
                          /\ pc' = "messages"
                          /\ UNCHANGED <<conversation, tool_results, block_idx>>
                     ELSE /\ eval_result' = [eval_result EXCEPT !.api_rounds = @ + 1]
                          /\ conversation' = Append(conversation,
                                 Message("assistant", outcome.response.content))
                          /\ tool_results' = <<>>
                          /\ block_idx' = 1
                          /\ pc' = "tools"
    /\ UNCHANGED <<text, blocks, existing, constraints, calendar, window, noise_log,
                   overlap, round_num, ScoreVars, composite, events>>

\* ProcessBlock where an exception of the tool call leaves the loop
ProcessBlock_error_leaves ==
    /\ pc = "tools"
    /\ block_idx <= Len(response.content)
    /\ LET block == response.content[block_idx]
       IN  IF block.type = "tool_use"
           THEN \E raised \in ToolOutcomes(round_num) :
                   /\ call_log' = [call_log EXCEPT !.tool = Append(@,
                          [round |-> round_num, id |-> block.id, raised |-> raised])]
                   /\ IF raised
                      THEN /\ eval_result' = [eval_result EXCEPT !.tool_calls = @ + 1,
                                                                 !.error = TRUE]
                           /\ pc' = "returned"
                           /\ UNCHANGED tool_results
                      ELSE /\ eval_result' = [eval_result EXCEPT !.tool_calls = @ + 1]
                           /\ tool_results' = Append(tool_results, ToolResult(block, FALSE))
                           /\ pc' = "tools"
           ELSE UNCHANGED <<eval_result, tool_results, call_log, pc>>
    /\ block_idx' = block_idx + 1
    /\ UNCHANGED <<text, blocks, existing, constraints, calendar, window, noise_log,
                   conversation, overlap, round_num, response, ScoreVars, composite, events>>

\* lines 640-660: one block of response.content; a tool_use block is called
\* and gets its result, the text of the exception when the call raises
ProcessBlock ==
    /\ pc = "tools"
    /\ block_idx <= Len(response.content)
    /\ LET block == response.content[block_idx]
       IN  IF block.type = "tool_use"
           THEN \E raised \in ToolOutcomes(round_num) :
                   /\ call_log' = [call_log EXCEPT !.tool = Append(@,
                          [round |-> round_num, id |-> block.id, raised |-> raised])]
                   /\ eval_result' = [eval_result EXCEPT !.tool_calls = @ + 1]
                   /\ tool_results' = Append(tool_results, ToolResult(block, raised))
           ELSE UNCHANGED <<eval_result, tool_results, call_log>>
    /\ block_idx' = block_idx + 1
    /\ UNCHANGED <<pc, text, blocks, existing, constraints, calendar, window, noise_log,
                   conversation, overlap, round_num, response, ScoreVars, composite, events>>

\* lines 662-665 and the step of the for loop of line 617
EndRound ==
    /\ pc = "tools"
    /\ block_idx > Len(response.content)
    /\ IF tool_results # <<>>
       THEN /\ conversation' = Append(conversation, Message("user", tool_results))
            /\ IF round_num + 1 < MAX_TOOL_ROUNDS
               THEN round_num' = round_num + 1 /\ pc' = "create"
               ELSE UNCHANGED round_num /\ pc' = "messages"
       ELSE /\ pc' = "messages"
            /\ UNCHANGED <<conversation, round_num>>
    /\ UNCHANGED <<text, blocks, existing, constraints, calendar, window, noise_log,
                   overlap, eval_result, response, tool_results, block_idx, call_log,
                   ScoreVars, composite, events>>

\* line 614: messages holds the prompt; nothing has been called
InitLoop ==
    /\ pc = "create"
    /\ conversation = <<TextMessage("user")>>
    /\ eval_result = NewEvalResult
    /\ round_num = 0
    /\ response = <<>>
    /\ tool_results = <<>>
    /\ block_idx = 0
    /\ call_log = [model |-> <<>>, tool |-> <<>>]
    /\ NoScore
    /\ text = <<>>
    /\ calendar = <<>>
    /\ window = <<>>
    /\ events = <<>>
    /\ composite = 0 - 1
    /\ noise_log = <<>>
    /\ overlap = <<>>

\* the loop of lines 617-665; at pc = "messages" it is left and line 671
\* hands the messages to extract_blocks_from_conversation
NextLoop ==
    \/ CallModel
    \/ ProcessBlock
    \/ EndRound

SpecLoop == InitLoop /\ [][NextLoop]_vars

\* every call returns or raises, and the code between two calls runs
SpecLoopFair == SpecLoop /\ WF_vars(NextLoop)

-----------------------------------------------------------------------------
(* Claims about score_scenario and composite_score *)

Max2(a, b) == IF a >= b THEN a ELSE b
Min2(a, b) == IF a <= b THEN a ELSE b

\* a fraction f equals the number num / den
Equals(f, num, den) == f.n * den = f.d * num

InUnit(f) == 0 <= f.n /\ f.n <= f.d /\ f.d > 0

CorrectnessSet == pc \in {"working_hours", "duration", "date_range", "custom_rules",
                          "adherence", "done"}

\* the (block, event) pairs whose intervals [start, end) overlap
OverlappingPairs ==
    { ij \in (1..Len(blocks)) \X (1..Len(existing)) :
        /\ Abs(blocks[ij[1]].start) < Abs(existing[ij[2]].end)
        /\ Abs(existing[ij[2]].start) < Abs(blocks[ij[1]].end) }

\* C1: once the correctness section has run, conflict_count is the number of
\* overlapping (block, event) pairs, every pair counted (a block overlapping k
\* events counts k times); correctness is max(0, 1 - conflict_count/|blocks|)
\* for a non-empty block list and exactly 0.0 for an empty one, whatever the
\* constraint spec and the events are.
C1_ConflictCountAndCorrectness ==
    CorrectnessSet =>
        /\ result.conflict_count = Cardinality(OverlappingPairs)
        /\ Len(blocks) > 0 =>
              Equals(result.correctness,
                     Max2(0, Len(blocks) - result.conflict_count), Len(blocks))
        /\ Len(blocks) = 0 => result.correctness = Zero

\* one block overlapping two different events: two conflicts, correctness 0.0
C1_Witness ==
    /\ pc = "done"
    /\ Len(blocks) = 1
    /\ Len(existing) = 2
    /\ existing[1] # existing[2]
    /\ result.conflict_count = 2
    /\ result.correctness = Zero

\* C2: completeness is min(1, |blocks| / required_block_count) when
\* required_block_count > 0 and exactly 1.0 when it is 0 or absent, for any
\* number of proposed blocks.
C2_Completeness ==
    pc # "completeness" =>
        LET required == IF Has(constraints, "required_block_count")
                        THEN constraints["required_block_count"] ELSE 0
        IN  /\ required > 0 =>
                  Equals(result.completeness, Min2(Len(blocks), required), required)
            /\ required = 0 => result.completeness = One

\* no block proposed, required_block_count absent: completeness is 1.0
C2_Witness ==
    /\ pc = "done"
    /\ ~Has(constraints, "required_block_count")
    /\ blocks = <<>>
    /\ result.completeness = One

\* C4: the violation counter never exceeds the check counter; the returned
\* constraint_adherence is max(0, 1 - violations/checks) when a check was
\* evaluated and 1.0 when none was; all three dimensions lie in [0,1].
C4_ViolationsWithinChecks ==
    /\ violations <= total_checks
    /\ pc = "done" =>
          /\ total_checks > 0 =>
                Equals(result.constraint_adherence,
                       Max2(0, total_checks - violations), total_checks)
          /\ total_checks = 0 => result.constraint_adherence = One
          /\ InUnit(result.constraint_adherence)
          /\ InUnit(result.correctness)
          /\ InUnit(result.completeness)

\* every check evaluated was violated: adherence 0.0
C4_Witness ==
    /\ pc = "done"
    /\ total_checks >= 2
    /\ violations = total_checks
    /\ result.constraint_adherence = Zero

\* C3: composite_score is 100 x (0.40 c + 0.25 p + 0.20 a), plus 100 x 0.15 a
\* only when c and p are both exactly 1.0, rounded to one decimal; it is 100.0
\* when all three dimensions are 1.0 and at most 85.0 when c or p is below 1.0.
C3_CompositeFormula ==
    pc = "scored" =>
        LET c == result.correctness
            p == result.completeness
            a == result.constraint_adherence
            den == c.d * p.d * a.d
            weighted == 400 * c.n * p.d * a.d + 250 * p.n * c.d * a.d + 200 * a.n * c.d * p.d
            bonus == IF c.n = c.d /\ p.n = p.d THEN 150 * a.n * c.d * p.d ELSE 0
            off == composite * den - (weighted + bonus)
        IN  /\ 2 * off <= den /\ 2 * off >= 0 - den
            /\ (c = One /\ p = One /\ a = One) => composite = 1000
            /\ (c.n < c.d \/ p.n < p.d) => composite <= 850

\* correctness 1.0, completeness below 1.0, adherence 1.0: no bonus
C3_Witness ==
    /\ pc = "scored"
    /\ result.correctness = One
    /\ result.completeness = Frac(1, 2)
    /\ result.constraint_adherence = One
    /\ composite = 725

\* a rule of the constraint spec that lacks a field it needs
LacksField(c) ==
    \/ /\ Has(c, "working_hours")
       /\ DOMAIN c["working_hours"] # {}
       /\ ~({"start_hour", "end_hour"} \subseteq DOMAIN c["working_hours"])
    \/ \E k \in 1..Len(Get(c, "custom_rules", <<>>)) :
          LET rule == c["custom_rules"][k]
          IN  \/ rule.type = "time_window" /\ ~({"start_hour", "end_hour"} \subseteq DOMAIN rule)
              \/ rule.type \in {"min_buffer_minutes", "max_per_day"} /\ ~Has(rule, "value")

AllAware(bs) == \A i \in 1..Len(bs) : bs[i].start.aware /\ bs[i].end.aware

\* C6: a rule that lacks a field it needs is skipped and score_scenario still
\* returns a ScoreBreakdown (blocks and events all carrying an offset, so
\* that nothing else can fail).
C6_MissingFieldSkipped ==
    (LacksField(constraints) /\ AllAware(blocks)) => pc # "raised"

-----------------------------------------------------------------------------
(* Claims about parse_blocks_from_text *)

\* the payload parse_blocks_from_text works on, once normalized to a list
PayloadOf(ts) == Normalize(JsonLoads(Candidate(ts).raw).val)

HasPayloadList(ts) ==
    /\ Candidate(ts).found
    /\ JsonLoads(Candidate(ts).raw).st = "ok"
    /\ PayloadOf(ts).kind = "list"

\* C7: parse_blocks_from_text never raises, whatever the text; where no
\* candidate payload is found, the payload does not parse, or the parsed
\* payload is neither a list nor an object, it returns the empty list.
C7_NeverRaises ==
    /\ pc # "raised"
    /\ (pc = "parsed" /\ ~HasPayloadList(text)) => blocks = <<>>

\* an alias whose value is present, truthy and parses as an instant
Resolves(item, k) ==
    /\ HasKey(item, k)
    /\ Truthy(StrOf(ValueOf(item, k)))
    /\ ~ParseIsoFails(StrOf(ValueOf(item, k)))

\* the instant an entry gives under the first of its aliases that resolves
Resolved(item, k1, k2) ==
    IF Resolves(item, k1) THEN parse_iso(StrOf(ValueOf(item, k1)))
    ELSE parse_iso(StrOf(ValueOf(item, k2)))

Recoverable(item) ==
    /\ item.kind = "dict"
    /\ Resolves(item, "start") \/ Resolves(item, "start_time")
    /\ Resolves(item, "end") \/ Resolves(item, "end_time")

\* the <<start, end>> pairs of the recoverable entries, in input order
RECURSIVE RecoverableInstants(_)
RecoverableInstants(items) ==
    IF items = <<>> THEN <<>>
    ELSE (IF Recoverable(Head(items))
          THEN << <<Resolved(Head(items), "start", "start_time"),
                    Resolved(Head(items), "end", "end_time")>> >>
          ELSE <<>>)
         \o RecoverableInstants(Tail(items))

\* C8: for a parsed payload list, the blocks returned are, in input order,
\* one per entry that is an object with a start resolvable under some alias
\* (start, start_time) and an end resolvable under some alias (end,
\* end_time), carrying those instants; every other entry is dropped.
C8_AliasedEntriesRecovered ==
    (pc = "parsed" /\ HasPayloadList(text)) =>
        [i \in 1..Len(blocks) |-> <<blocks[i].start, blocks[i].end>>]
            = RecoverableInstants(PayloadOf(text).items)

\* C5: whenever parse_blocks_from_text returns, score_scenario returns a
\* ScoreBreakdown for its blocks, any normalized events and any constraint
\* spec all of whose rules have their fields: it never raises.
C5_JudgeAlwaysScores ==
    pc = "raised" => ParseBlocks(text).raised

-----------------------------------------------------------------------------
(* Claims about the normalizers *)

\* the window as absolute instants
WindowStart == Abs(parse_iso(window.range_start))
WindowEnd == Abs(parse_iso(window.range_end))
InsideWindow(t) == WindowStart <= t /\ t <= WindowEnd

Occurrence(title, start, end) == [title |-> title, start |-> start, end |-> end]

\* the returned events, by title and absolute instants
ReturnedOccurrences ==
    { Occurrence(events[i].title, Abs(events[i].start), Abs(events[i].end)) :
        i \in 1..Len(events) }

\* a VEVENT whose start and end are written in UTC and whose rule, if it has
\* one, is well formed (an UNTIL, if any, written in UTC as well)
WrittenInUTC(current) ==
    /\ current.DTSTART.form = "Z"
    /\ current.DTEND.form = "Z"
    /\ current.RRULE.ok
    /\ current.RRULE.until.form \in {"empty", "Z"}

\* the starts of the recurrence set of such a VEVENT, up to the window's end
RecurrenceStarts(current) ==
    LET dtstart == current.DTSTART.w
        rule == current.RRULE
        last == IF WindowEnd < dtstart THEN 0 ELSE (WindowEnd - dtstart) \div rule.step
    IN  { dtstart + k * rule.step : k \in
            { k \in 0..last :
                /\ rule.count > 0 => k < rule.count
                /\ rule.until.form = "Z" => dtstart + k * rule.step <= rule.until.w } }

\* the occurrences of such a VEVENT: the base event, or every expansion of
\* its rule, each as long as the base event
OccurrencesOf(current) ==
    LET length == current.DTEND.w - current.DTSTART.w
    IN  IF current.RRULE.given
        THEN { Occurrence(current.SUMMARY, t, t + length) : t \in RecurrenceStarts(current) }
        ELSE { Occurrence(current.SUMMARY, current.DTSTART.w, current.DTEND.w) }

VEventsOf(cal) == ReadLines(cal.lines)

\* an entry of the JSON calendar that gives both bounds as exact timestamps
\* carrying an offset
ExactEntry(e) ==
    /\ e.start.dateTime.form \in {"Z", "offset"}
    /\ e.end.dateTime.form \in {"Z", "offset"}

\* the occurrences of a calendar all of whose events are written as above
CalendarOccurrences(cal) ==
    IF cal.format = "ical"
    THEN UNION { OccurrencesOf(VEventsOf(cal)[i]) : i \in 1..Len(VEventsOf(cal)) }
    ELSE { Occurrence(cal.entries[i].summary,
                      Abs(parse_iso(cal.entries[i].start.dateTime)),
                      Abs(parse_iso(cal.entries[i].end.dateTime))) :
             i \in 1..Len(cal.entries) }

\* C9: the normalizers return exactly the occurrences (base events and
\* expansions of a rule) whose start or end lies in the window, both ends
\* inclusive - here for a window written in UTC and a calendar all of whose
\* events are written in UTC (iCal, rules without UNTIL) or as exact
\* timestamps (JSON).
C9_EndpointInWindow ==
    ( /\ pc = "normalized"
      /\ window.range_start.form = "Z" /\ window.range_end.form = "Z"
      /\ calendar.format = "ical" =>
            \A i \in 1..Len(VEventsOf(calendar)) :
                /\ WrittenInUTC(VEventsOf(calendar)[i])
                /\ VEventsOf(calendar)[i].RRULE.until.form = "empty"
      /\ calendar.format = "gcal" =>
            \A i \in 1..Len(calendar.entries) : ExactEntry(calendar.entries[i]) )
    => ReturnedOccurrences =
          { o \in CalendarOccurrences(calendar) :
              InsideWindow(o.start) \/ InsideWindow(o.end) }

\* C10: for events written in UTC with a well-formed rule,
\* expand_recurring_for_scoring returns the occurrences of the rule whose
\* start lies inside the window and no other, each with the base event's
\* title and end - start.
C10_StartsInsideWindow ==
    ( /\ pc = "normalized"
      /\ calendar.format = "ical"
      /\ \A i \in 1..Len(VEventsOf(calendar)) :
            /\ WrittenInUTC(VEventsOf(calendar)[i])
            /\ VEventsOf(calendar)[i].RRULE.given )
    => ReturnedOccurrences =
          { o \in CalendarOccurrences(calendar) : InsideWindow(o.start) }

\* the calendar text without its malformed RRULE lines
WithoutMalformedRules(lines) ==
    SelectSeq(lines, LAMBDA line : ~(line.t = "prop" /\ line.key = "RRULE" /\ ~line.rule.ok))

HasMalformedRule(lines) == WithoutMalformedRules(lines) # lines

\* C11: a malformed recurrence rule does not abort the parse: the calendar
\* is read exactly as the same calendar without the malformed rule is (the
\* base event as a single occurrence, no expansion, every following event
\* as before), and a calendar written in UTC never makes the normalizer raise.
C11_MalformedRuleFallsBack ==
    (pc \in {"normalized", "raised"} /\ calendar.format = "ical") =>
        LET plain == expand_recurring_for_scoring(WithoutMalformedRules(calendar.lines),
                                                  window.range_start, window.range_end)
        IN  /\ (pc = "raised") = plain.raised
            /\ pc = "normalized" => events = plain.events
            /\ (\A i \in 1..Len(VEventsOf(calendar)) :
                    /\ VEventsOf(calendar)[i].DTSTART.form = "Z"
                    /\ VEventsOf(calendar)[i].DTEND.form = "Z") => pc = "normalized"

\* a malformed rule on the first event; it and the event after it are returned
C11_Witness ==
    /\ pc = "normalized"
    /\ calendar.format = "ical"
    /\ Len(VEventsOf(calendar)) = 2
    /\ ~VEventsOf(calendar)[1].RRULE.ok
    /\ Len(events) = 2
    /\ events[1].title = VEventsOf(calendar)[1].SUMMARY
    /\ events[1].start = parse_iso(VEventsOf(calendar)[1].DTSTART)
    /\ events[2].title = "Review"

\* a record whose start or end field is missing or is no ISO string
BadVEvent(current) == ParseIsoFails(current.DTSTART) \/ ParseIsoFails(current.DTEND)
BadEntry(e) ==
    \/ ParseIsoFails(OrElse(e.start.dateTime, e.start.date))
    \/ ParseIsoFails(OrElse(e.end.dateTime, e.end.date))

\* what the normalizer returns for the calendar without such records
WithoutBadRecords ==
    IF calendar.format = "ical"
    THEN ExpandEvents(SelectSeq(VEventsOf(calendar), LAMBDA current : ~BadVEvent(current)),
                      parse_iso(window.range_start), parse_iso(window.range_end))
    ELSE GcalEntries(SelectSeq(calendar.entries, LAMBDA e : ~BadEntry(e)),
                     parse_iso(window.range_start), parse_iso(window.range_end))

\* C12: a record with a missing or malformed start/end field is skipped
\* alone; the normalizers never raise, also on date-only bounds and on
\* instants without an offset, and return what they return for the
\* calendar without the skipped records.
C12_BadRecordSkippedAlone ==
    pc \in {"normalized", "raised"} =>
        /\ pc = "normalized"
        /\ events = WithoutBadRecords.events

\* the calendar text with every timezone-qualified value written in UTC
\* (the local wall-clock reading minus the offset of the declared zone)
WrittenAsUTC(lines) ==
    [i \in 1..Len(lines) |->
        IF lines[i].zoned /\ lines[i].v.form = "naive"
        THEN Prop(lines[i].key, IsoZ(lines[i].v.w - lines[i].tz))
        ELSE lines[i]]

HasZonedLine(lines) == \E i \in 1..Len(lines) : lines[i].zoned

OccurrencesIn(evs) ==
    { Occurrence(evs[i].title, Abs(evs[i].start), Abs(evs[i].end)) : i \in 1..Len(evs) }

\* C13: a start or end key carrying a TZID parameter is resolved in the
\* declared timezone: the calendar yields occurrences with the same absolute
\* instants as the same calendar with those values written in UTC.
C13_ZonedValueResolved ==
    (pc \in {"normalized", "raised"} /\ calendar.format = "ical"
        /\ HasZonedLine(calendar.lines)) =>
        LET utc == expand_recurring_for_scoring(WrittenAsUTC(calendar.lines),
                                                window.range_start, window.range_end)
        IN  /\ (pc = "raised") = utc.raised
            /\ pc = "normalized" => ReturnedOccurrences = OccurrencesIn(utc.events)

-----------------------------------------------------------------------------
(* Claims about add_realistic_noise *)

\* the output holds a DTSTART or DTEND rewritten to a local zone
HasRewrittenLine(output) ==
    \E i \in 1..Len(output) : output[i].key \in {"DTSTART", "DTEND"} /\ output[i].zoned

CountOf(evs, e) == Cardinality({ i \in 1..Len(evs) : evs[i] = e })

\* the same multiset of (title, start, end)
SameMultiset(evs1, evs2) ==
    /\ Len(evs1) = Len(evs2)
    /\ \A i \in 1..Len(evs1) : CountOf(evs1, evs1[i]) = CountOf(evs2, evs1[i])

\* C15: the normalizer run over the output of add_realistic_noise returns,
\* for the same window, the same multiset of (title, start, end) as over the
\* clean fixture; rewritten events and VALARM sub-blocks included.
C15_NoisePreservesEvents ==
    \A i \in DOMAIN noise_log :
        LET clean == expand_recurring_for_scoring(noise_log[i].ical_data,
                                                  window.range_start, window.range_end)
            noisy == expand_recurring_for_scoring(noise_log[i].output,
                                                  window.range_start, window.range_end)
        IN  /\ ~noisy.raised
            /\ SameMultiset(noisy.events, clean.events)

\* the lines of the k-th VEVENT of a calendar, from BEGIN:VEVENT to END:VEVENT
EventLines(lines, k) ==
    LET begins == SelectSeq([i \in 1..Len(lines) |-> i], LAMBDA i : lines[i].t = "begin")
        ends == SelectSeq([i \in 1..Len(lines) |-> i], LAMBDA i : lines[i].t = "end")
    IN  SubSeq(lines, begins[k], ends[k])

NumEvents(lines) == Len(SelectSeq(lines, LAMBDA line : line.t = "end"))

CarriesRRule(event_lines) ==
    \E i \in 1..Len(event_lines) : event_lines[i].t = "prop" /\ event_lines[i].key = "RRULE"

\* the DTSTART and DTEND lines of an event
Times(event_lines) ==
    SelectSeq(event_lines, LAMBDA line : line.t = "prop" /\ line.key \in {"DTSTART", "DTEND"})

\* C16: an event that carries a recurrence rule is never rewritten with a
\* local timezone, whatever the seed: its DTSTART and DTEND lines are in the
\* output as they are in the fixture.
C16_RecurringNeverRewritten ==
    \A c \in DOMAIN noise_log :
        /\ NumEvents(noise_log[c].output) = NumEvents(noise_log[c].ical_data)
        /\ \A k \in 1..NumEvents(noise_log[c].ical_data) :
              CarriesRRule(EventLines(noise_log[c].ical_data, k)) =>
                  /\ ~HasRewrittenLine(EventLines(noise_log[c].output, k))
                  /\ Times(EventLines(noise_log[c].output, k))
                        = Times(EventLines(noise_log[c].ical_data, k))

\* the seed draws a conversion for both events; the recurring one is left as
\* it was and the other one is rewritten
C16_Witness ==
    /\ Len(noise_log) = 1
    /\ NumEvents(noise_log[1].ical_data) = 2
    /\ CarriesRRule(EventLines(noise_log[1].ical_data, 1))
    /\ ~CarriesRRule(EventLines(noise_log[1].ical_data, 2))
    /\ Random(noise_log[1].seed)[1].convert_tz
    /\ Random(noise_log[1].seed)[2].convert_tz
    /\ ~HasRewrittenLine(EventLines(noise_log[1].output, 1))
    /\ HasRewrittenLine(EventLines(noise_log[1].output, 2))

\* the zones of the rewritten DTSTART and DTEND lines
UsedZones(output) ==
    { output[i].s : i \in { j \in 1..Len(output) :
                               output[j].key \in {"DTSTART", "DTEND"} /\ output[j].zoned } }

\* where the definition block of zone tz begins: the BEGIN:VTIMEZONE lines
\* followed by TZID:tz
BlockStarts(output, tz) ==
    { i \in 1..(Len(output) - 1) :
        output[i] = Text("BEGIN", "VTIMEZONE") /\ output[i + 1] = Text("TZID", tz) }

\* the block that begins at line i is there as a whole
WholeBlock(output, i, tz) ==
    /\ i + Len(VTIMEZONE_BLOCKS(tz)) - 1 <= Len(output)
    /\ SubSeq(output, i, i + Len(VTIMEZONE_BLOCKS(tz)) - 1) = VTIMEZONE_BLOCKS(tz)

LastEventLine(output) ==
    MaxOf({0} \cup { i \in 1..Len(output) : output[i].t = "end" })

\* C17: every timezone used by a rewritten event has its definition block in
\* the output exactly once, no block is there for a zone no event uses, and
\* all blocks come after every event.
C17_ZoneBlocksOnceAfterEvents ==
    \A c \in DOMAIN noise_log :
        LET output == noise_log[c].output
        IN  /\ \A tz \in UsedZones(output) :
                  /\ Cardinality(BlockStarts(output, tz)) = 1
                  /\ \A i \in BlockStarts(output, tz) : WholeBlock(output, i, tz)
            /\ \A i \in 1..Len(output) :
                  output[i].key = "TZID" => output[i].s \in UsedZones(output)
            /\ \A i \in 1..Len(output) :
                  output[i] = Text("BEGIN", "VTIMEZONE") => i > LastEventLine(output)

\* two events rewritten to one zone, whose block is there once, after both
C17_Witness ==
    /\ Len(noise_log) = 1
    /\ NumEvents(noise_log[1].output) = 2
    /\ HasRewrittenLine(EventLines(noise_log[1].output, 1))
    /\ HasRewrittenLine(EventLines(noise_log[1].output, 2))
    /\ UsedZones(noise_log[1].output) = {"America/Chicago"}
    /\ Cardinality(BlockStarts(noise_log[1].output, "America/Chicago")) = 1
    /\ \A i \in BlockStarts(noise_log[1].output, "America/Chicago") :
          i > LastEventLine(noise_log[1].output)

-----------------------------------------------------------------------------
(* Claims about overlaps *)

\* both intervals are written with an offset, or both without
Comparable(a, b) == a.start.aware = b.start.aware

\* one interval ends before the other starts, or at that instant
Disjoint(a, b) == Abs(a.end) <= Abs(b.start) \/ Abs(b.end) <= Abs(a.start)

Adjacent(a, b) == Abs(a.end) = Abs(b.start)

\* C18: overlaps returns the same in both argument orders, returns false in
\* both orders for disjoint intervals (one ends no later than the other
\* starts) and true for all others, and returns false for adjacent intervals
\* (a.end = b.start); instants are compared as absolute instants.
C18_OverlapsSymmetricHalfOpen ==
    pc = "compared" =>
        LET a == blocks[1]
            b == existing[1]
        IN  /\ overlap.ab = overlap.ba
            /\ Comparable(a, b) => overlap.ab \in {"T", "F"}
            /\ (Comparable(a, b) /\ Disjoint(a, b)) => (overlap.ab = "F" /\ overlap.ba = "F")
            /\ (Comparable(a, b) /\ ~Disjoint(a, b)) => (overlap.ab = "T" /\ overlap.ba = "T")
            /\ (Comparable(a, b) /\ (Adjacent(a, b) \/ Adjacent(b, a)))
                  => (overlap.ab = "F" /\ overlap.ba = "F")

\* 09:00-10:00 against 10:00-11:00, the common instant written once with
\* offset -05:00 and once in UTC
C18_Witness ==
    /\ pc = "compared"
    /\ blocks[1].start = UTC(1, 9, 0) /\ blocks[1].end = EST(1, 10, 0)
    /\ existing[1].start = UTC(1, 10, 0) /\ existing[1].end = UTC(1, 11, 0)
    /\ overlap.ab = "F" /\ overlap.ba = "F"

-----------------------------------------------------------------------------
(* Claims about extract_blocks_from_conversation *)

\* the content blocks of the assistant's messages, in conversation order
AssistantItems(messages) ==
    Flatten([i \in 1..Len(messages) |->
                IF messages[i].role = "assistant" /\ messages[i].islist
                THEN messages[i].content ELSE <<>>])

\* the propose_events and propose_and_commit calls, in conversation order
Proposals(messages) ==
    SelectSeq(AssistantItems(messages),
              LAMBDA item : /\ item.type = "tool_use"
                            /\ item.name \in {"propose_events", "propose_and_commit"})

\* the events of a call that can be read as a block
Parsable(item) ==
    { i \in 1..Len(item.events) :
        /\ item.has_events /\ item.events[i].isdict
        /\ {"start", "end"} \subseteq item.events[i].keys
        /\ ~ParseIsoFails(item.events[i].start) /\ ~ParseIsoFails(item.events[i].end) }

\* the block of the i-th event of a call
BlockOfEvent(item, i) ==
    ScheduledBlock(IF "title" \in item.events[i].keys THEN item.events[i].title
                   ELSE "Focus Block",
                   parse_iso(item.events[i].start), parse_iso(item.events[i].end))

\* C19: the blocks extract_blocks_from_conversation returns are the blocks
\* of the parsable events of the last propose_events or propose_and_commit
\* call of the assistant, in their order; no block comes from an earlier
\* proposal, also when the last one is empty or has no parsable event; without
\* any proposal there is no block.
C19_OnlyLastProposal ==
    pc = "collected" =>
        LET proposals == Proposals(conversation)
        IN  IF proposals = <<>> THEN blocks = <<>>
            ELSE LET last == proposals[Len(proposals)]
                     order == SelectSeq([i \in 1..Len(last.events) |-> i],
                                        LAMBDA i : i \in Parsable(last))
                 IN  blocks = [j \in 1..Len(order) |-> BlockOfEvent(last, order[j])]

\* an earlier proposal with a parsable event is followed by a last proposal
\* that has events but no parsable one: nothing is returned
C19_Witness ==
    /\ pc = "collected"
    /\ Len(Proposals(conversation)) >= 2
    /\ Parsable(Proposals(conversation)[1]) # {}
    /\ Proposals(conversation)[Len(Proposals(conversation))].events # <<>>
    /\ Parsable(Proposals(conversation)[Len(Proposals(conversation))]) = {}
    /\ blocks = <<>>

-----------------------------------------------------------------------------
(* Claims about the candidate payload of parse_blocks_from_text *)

\* the fences whose opening ticks carry the tag json
TaggedFenceStarts(ts) == { p \in FenceStarts(ts) : ts[p + 1].t = "json" }

\* the contents of the first fence tagged json
TaggedFenceContent(ts) ==
    LET p == MinOf(TaggedFenceStarts(ts))
        h == MaxOf(FenceAt(ts, p))
        e == MinOf(FenceEnds(ts, h))
    IN  SubSeq(ts, h + 1, e - 1)

\* the chain as stated: a fence tagged as structured data, else the minimal
\* balanced span of the first "[", else that of the first "{"
StatedCandidate(ts) ==
    IF TaggedFenceStarts(ts) # {} THEN [found |-> TRUE, raw |-> TaggedFenceContent(ts)]
    ELSE IF BalancedEnds(ts, "[", "]") # {}
         THEN [found |-> TRUE, raw |-> BalancedSpan(ts, "[", "]")]
    ELSE IF BalancedEnds(ts, "{", "}") # {}
         THEN [found |-> TRUE, raw |-> BalancedSpan(ts, "{", "}")]
    ELSE [found |-> FALSE, raw |-> <<>>]

\* what parse_blocks_from_text makes of a candidate payload
OutcomeOf(cand) ==
    LET loaded == JsonLoads(cand.raw)
        data == Normalize(loaded.val)
    IN  IF ~cand.found THEN [raised |-> FALSE, blocks |-> <<>>]
        ELSE IF loaded.st = "huge" THEN [raised |-> TRUE, blocks |-> <<>>]
        ELSE IF loaded.st = "err" THEN [raised |-> FALSE, blocks |-> <<>>]
        ELSE IF data.kind # "list" THEN [raised |-> FALSE, blocks |-> <<>>]
        ELSE [raised |-> FALSE, blocks |-> BlocksOf(data.items)]

\* C20: parse_blocks_from_text works on the candidate picked by the chain
\* fence tagged as structured data, first "[" span, first "{" span: it
\* returns (or raises) what that candidate yields, and nothing else is tried
\* when the candidate does not parse.
C20_CandidateChain ==
    pc \in {"parsed", "raised"} =>
        /\ (pc = "raised") = OutcomeOf(StatedCandidate(text)).raised
        /\ pc = "parsed" => blocks = OutcomeOf(StatedCandidate(text)).blocks

-----------------------------------------------------------------------------
(* Claims about the constraint-adherence rules of score_scenario *)

\* the custom rule being evaluated is of the given type and evaluates without
\* an exception
RuleRuns(type) ==
    /\ pc = "custom_rules"
    /\ Get(custom_rules[rule_idx], "type", "") = type
    /\ pc' # "raised"

\* existing events followed by the proposed blocks
AllIntervals == existing \o blocks

\* the interval is the block's own: identical start and end
SameInterval(b, ev) == Abs(ev.start) = Abs(b.start) /\ Abs(ev.end) = Abs(b.end)

\* the interval lies wholly before or wholly after the block
ApartFrom(b, ev) == Abs(b.end) <= Abs(ev.start) \/ Abs(ev.end) <= Abs(b.start)

\* minutes between the block and the interval's nearer boundary
GapTo(b, ev) ==
    IF Abs(b.end) <= Abs(ev.start) THEN Abs(ev.start) - Abs(b.end)
    ELSE Abs(b.start) - Abs(ev.end)

\* the (block, interval) pairs a min_buffer_minutes rule is stated to check
BufferChecks ==
    { ij \in (1..Len(blocks)) \X (1..Len(AllIntervals)) :
        /\ ~SameInterval(blocks[ij[1]], AllIntervals[ij[2]])
        /\ ApartFrom(blocks[ij[1]], AllIntervals[ij[2]]) }

BufferFailures(value) ==
    { ij \in BufferChecks : GapTo(blocks[ij[1]], AllIntervals[ij[2]]) < value }

\* C21: a min_buffer_minutes rule adds one check per (block, other interval)
\* pair whose interval does not overlap the block and none for an overlapping
\* interval or for the block's own interval; a check fails iff the gap to the
\* interval's nearer boundary is below value minutes.
C21_BufferChecksNonOverlapping ==
    [][RuleRuns("min_buffer_minutes") =>
          /\ total_checks' - total_checks = Cardinality(BufferChecks)
          /\ violations' - violations =
                Cardinality(BufferFailures(custom_rules[rule_idx]["value"]))]_vars

\* working_hours is given with both of its fields
HasWorkingHours ==
    /\ Has(constraints, "working_hours")
    /\ {"start_hour", "end_hour"} \subseteq DOMAIN constraints["working_hours"]

\* the block starts before start_hour or ends, rounded up to the whole hour,
\* after end_hour
OutsideWorkingHours(b) ==
    LET wh == constraints["working_hours"]
        start_hour == (b.start.w % Day) \div 60
        end_hour == ((b.end.w % Day) + 59) \div 60
    IN  start_hour < wh["start_hour"] \/ end_hour > wh["end_hour"]

OutsideBlocks == { i \in 1..Len(blocks) : OutsideWorkingHours(blocks[i]) }

MessagesTagged(tag) ==
    SelectSeq(result.constraint_violations, LAMBDA msg : msg.tag = tag)

\* C22: with working_hours {start_hour, end_hour} given, the working-hours
\* section makes exactly one check per block; a block fails (one violation,
\* one WORKING_HOURS message) iff its start hour is below start_hour or its
\* end hour, rounded up when the end has a non-zero minute, exceeds end_hour;
\* a returned score over a failing block has constraint_adherence below 1.0.
C22_WorkingHoursPerBlock ==
    HasWorkingHours =>
        /\ pc = "duration" =>
              /\ total_checks = Len(blocks)
              /\ violations = Cardinality(OutsideBlocks)
        /\ pc \in {"duration", "date_range", "custom_rules", "adherence", "done"} =>
              /\ Len(MessagesTagged("WORKING_HOURS")) = Cardinality(OutsideBlocks)
              /\ \A i \in OutsideBlocks :
                    \E k \in 1..Len(result.constraint_violations) :
                        result.constraint_violations[k] = Msg("WORKING_HOURS", i, 0)
        /\ (pc = "done" /\ OutsideBlocks # {}) =>
              result.constraint_adherence.n < result.constraint_adherence.d

\* 9:00-10:30 under 9-10 is flagged through the rounded end hour alone, next
\* to a block that passes
C22_Witness ==
    /\ pc = "done"
    /\ HasWorkingHours
    /\ constraints["working_hours"]["end_hour"] = 10
    /\ Len(blocks) = 2
    /\ blocks[1].end.w = At(1, 10, 30)
    /\ OutsideBlocks = {1}
    /\ violations = 1
    /\ total_checks = 2
    /\ result.constraint_adherence = Frac(1, 2)

\* the calendar dates, as written, on which a block starts
StartDates == { blocks[i].start.w \div Day : i \in 1..Len(blocks) }

BlocksOn(d) == { i \in 1..Len(blocks) : blocks[i].start.w \div Day = d }

\* C23: a max_per_day rule groups the blocks by the calendar date of their
\* start and makes exactly one check per distinct date present; the check
\* fails, with one MAX_PER_DAY message, iff the number of blocks on that date
\* exceeds value.  The rule touches constraint_adherence alone: correctness,
\* completeness and the conflict count are what they were before it.
C23_MaxPerDayPerDate ==
    [][RuleRuns("max_per_day") =>
          LET value == custom_rules[rule_idx]["value"]
              crowded == { d \in StartDates : Cardinality(BlocksOn(d)) > value }
          IN  /\ total_checks' - total_checks = Cardinality(StartDates)
              /\ violations' - violations = Cardinality(crowded)
              /\ Len(result'.constraint_violations) - Len(result.constraint_violations)
                    = Cardinality(crowded)
              /\ \A d \in crowded :
                    \E k \in 1..Len(result'.constraint_violations) :
                        result'.constraint_violations[k]
                            = Msg("MAX_PER_DAY", d, Cardinality(BlocksOn(d)))
              /\ result'.correctness = result.correctness
              /\ result'.completeness = result.completeness
              /\ result'.conflict_count = result.conflict_count]_vars

\* two non-conflicting blocks on one day, required_block_count = 2 and at
\* most one block per day: the rule is violated, yet correctness and
\* completeness are 1.0
C23_Witness ==
    /\ pc = "done"
    /\ Get(constraints, "required_block_count", 0) = 2
    /\ Len(blocks) = 2
    /\ blocks[1] # blocks[2]
    /\ Cardinality(StartDates) = 1
    /\ result.conflict_count = 0
    /\ Len(MessagesTagged("MAX_PER_DAY")) = 1
    /\ total_checks = 1
    /\ result.constraint_adherence = Zero
    /\ result.correctness = One
    /\ result.completeness = One

\* C24: a spread_across_days rule makes exactly one check in total, whatever
\* the number of blocks (none included); the check fails, with one SPREAD
\* message, iff the number of distinct start dates is below min_days.
C24_SpreadOneCheck ==
    [][RuleRuns("spread_across_days") =>
          LET min_days == Get(custom_rules[rule_idx], "min_days", 1)
              fails == Cardinality(StartDates) < min_days
          IN  /\ total_checks' - total_checks = 1
              /\ violations' - violations = (IF fails THEN 1 ELSE 0)
              /\ result'.constraint_violations =
                    IF fails
                    THEN Append(result.constraint_violations,
                                Msg("SPREAD", Cardinality(StartDates), min_days))
                    ELSE result.constraint_violations]_vars

\* no block at all: the rule still makes its one check, which fails
C24_Witness ==
    /\ pc = "done"
    /\ blocks = <<>>
    /\ Len(custom_rules) = 1
    /\ custom_rules[1].type = "spread_across_days"
    /\ total_checks = 1
    /\ violations = 1
    /\ result.constraint_adherence = Zero

\* the date-range bounds the constraint spec gives
GivenStart == Has(constraints, "date_range_start")
GivenEnd == Has(constraints, "date_range_end")

\* the block starts before a given date_range_start or ends after a given
\* date_range_end
OutsideRange(b) ==
    \/ GivenStart /\ Abs(b.start) < Abs(parse_iso(constraints["date_range_start"]))
    \/ GivenEnd /\ Abs(b.end) > Abs(parse_iso(constraints["date_range_end"]))

\* C25: the date-range rule makes one check per block, failing iff the block
\* starts before date_range_start or ends after date_range_end, and only the
\* absence of its option disables it: with one bound given and the other
\* absent, a block outside the given bound is still flagged (blocks written
\* with an offset).
C25_DateRangeEitherBound ==
    [][(pc = "date_range" /\ pc' # "raised" /\ AllAware(blocks)) =>
          /\ total_checks' - total_checks =
                (IF GivenStart \/ GivenEnd THEN Len(blocks) ELSE 0)
          /\ violations' - violations =
                Cardinality({ i \in 1..Len(blocks) : OutsideRange(blocks[i]) })]_vars

\* the same instant written in UTC
InUTC(d) == IF d.aware THEN DT(Abs(d), 0, TRUE) ELSE d

\* the block list with every timestamp written in UTC: the same instants
BlocksInUTC(bs) ==
    [i \in 1..Len(bs) |->
        ScheduledBlock(bs[i].title, InUTC(bs[i].start), InUTC(bs[i].end))]

\* what the constraint-adherence sections of score_scenario count over the
\* block list bs, the events and the constraint spec being those of the call
AdherenceOver(bs) ==
    Chain(<<WorkingHours(constraints, bs), Duration(constraints, bs),
            DateRange(constraints, bs)>>
          \o [k \in 1..Len(custom_rules) |-> CustomRule(custom_rules[k], bs, existing)])

WrittenWithOffset ==
    \E i \in 1..Len(blocks) : blocks[i].start.off # 0 \/ blocks[i].end.off # 0

\* C26: the returned score depends on the instants alone: the call over the
\* blocks as written and the call over the same instants written in UTC
\* count the same checks and the same violations, so both return the same
\* constraint_adherence (blocks written with an offset, valid constraints).
C26_OffsetIndependent ==
    (pc = "done" /\ AllAware(blocks) /\ ~LacksField(constraints)) =>
        LET utc == AdherenceOver(BlocksInUTC(blocks))
        IN  /\ ~utc.err
            /\ total_checks = utc.checks
            /\ violations = utc.viol

-----------------------------------------------------------------------------
(* Claims about the conversation loop of run_mcp_eval *)

\* the model calls made so far, and those of them that returned a response
ModelCalls == Len(call_log.model)
ReturnedCalls == SelectSeq(call_log.model, LAMBDA o : ~o.raised)
LastCallRaised == ModelCalls > 0 /\ call_log.model[ModelCalls].raised

\* the response ends the turn or holds no tool call
Stops(o) == o.response.stop_reason = "end_turn" \/ ~HasToolUse(o.response)

\* the ids of the tool calls of a content list, and of a list of results
ToolUseIds(content) ==
    LET uses == SelectSeq(content, LAMBDA block : block.type = "tool_use")
    IN  [i \in 1..Len(uses) |-> uses[i].id]
ResultIds(results) == [i \in 1..Len(results) |-> results[i].tool_use_id]

\* the tool calls made in a round, as the results that stand for them
CallsOfRound(r) ==
    LET made == SelectSeq(call_log.tool, LAMBDA c : c.round = r)
    IN  [i \in 1..Len(made) |->
            [type |-> "tool_result", tool_use_id |-> made[i].id, is_error |-> made[i].raised]]

\* the messages of round r: the response's content and the results
AssistantAt(r) == 2 * r + 2
ResultsAt(r) == 2 * r + 3

\* at most MAX_TOOL_ROUNDS model calls, none after a response that ends the
\* turn or holds no tool call, none after a call that raised
BoundedRounds ==
    /\ ModelCalls <= MAX_TOOL_ROUNDS
    /\ \A k \in 1..(ModelCalls - 1) :
          ~call_log.model[k].raised /\ ~Stops(call_log.model[k])
    /\ (pc = "create" /\ ModelCalls > 0) =>
          ~LastCallRaised /\ ~Stops(call_log.model[ModelCalls])
    /\ pc = "messages" =>
          /\ ~LastCallRaised
          /\ Stops(call_log.model[ModelCalls]) \/ ModelCalls = MAX_TOOL_ROUNDS

\* every tool call of a response has exactly one result, in the order of the
\* calls, an error result where the call raised; the run goes on after it
OneResultPerToolCall ==
    /\ eval_result.tool_calls = Len(call_log.tool)
    /\ pc = "tools" =>
          /\ ResultIds(tool_results)
                = ToolUseIds(SubSeq(response.content, 1, block_idx - 1))
          /\ tool_results = CallsOfRound(round_num)
    /\ \A r \in 0..(MAX_TOOL_ROUNDS - 1) :
          ResultsAt(r) <= Len(conversation) =>
              /\ conversation[AssistantAt(r)].role = "assistant"
              /\ conversation[ResultsAt(r)].role = "user"
              /\ conversation[ResultsAt(r)].content = CallsOfRound(r)
              /\ ResultIds(conversation[ResultsAt(r)].content)
                    = ToolUseIds(conversation[AssistantAt(r)].content)
    /\ pc \in {"create", "messages", "returned"} =>
          \A i \in 1..Len(conversation) :
              (conversation[i].role = "assistant" /\ ToolUseIds(conversation[i].content) # <<>>)
                  => i < Len(conversation)

\* C27 as stated: the loop always reaches scoring, api_rounds counting the
\* model calls made: the run is never over before line 667, there are at
\* most MAX_TOOL_ROUNDS model calls, none after a response that ends the turn
\* or holds no tool call, and every tool call has its one result, a raising
\* call an error result.
C27_LoopAlwaysReachesScoring ==
    /\ pc # "returned"
    /\ eval_result.api_rounds = ModelCalls
    /\ BoundedRounds
    /\ OneResultPerToolCall

\* C27, amended: the loop always terminates, after at most MAX_TOOL_ROUNDS
\* model calls and at the first response that ends the turn or holds no tool
\* call; api_rounds is the number of model calls that returned a response;
\* every tool call of a response gets exactly one result, in order, an error
\* result when it raised, and the loop goes on.  Scoring is reached unless a
\* model call raised: then the run is over with error set, nothing scored.
C27_LoopTerminates ==
    /\ [](/\ eval_result.api_rounds = Len(ReturnedCalls)
          /\ BoundedRounds
          /\ OneResultPerToolCall
          /\ pc = "returned" <=> LastCallRaised
          /\ eval_result.error <=> LastCallRaised)
    /\ <>(pc = "messages" \/ (pc = "returned" /\ LastCallRaised))

\* all MAX_TOOL_ROUNDS rounds used, the first of them with two tool calls of
\* which the second raised: the loop is left for scoring
C27_Witness ==
    /\ pc = "messages"
    /\ ModelCalls = MAX_TOOL_ROUNDS
    /\ eval_result.api_rounds = MAX_TOOL_ROUNDS
    /\ Len(conversation[ResultsAt(0)].content) = 2
    /\ ~conversation[ResultsAt(0)].content[1].is_error
    /\ conversation[ResultsAt(0)].content[2].is_error
    /\ Len(conversation) = 2 * MAX_TOOL_ROUNDS + 1
    /\ ~eval_result.error

====
